---- MODULE Spec2Model ----
(***************************************************************************)
(* State-machine model of the MoonReader front end: the Vuex store         *)
(* (reader_ui/src/store/index.js), the review view and the settings view   *)
(* (unnamed/part_003) and the documents view (unnamed/part_001).           *)
(*                                                                         *)
(* A store action is modelled in two steps, as the JavaScript event loop   *)
(* runs it: the synchronous part up to the `await axios...` (the request   *)
(* joins `inflight`), and the continuation that runs when the response     *)
(* arrives (commit / catch / finally, followed in the same turn by the     *)
(* continuation of the view method that awaited the dispatch).             *)
(***************************************************************************)
EXTENDS Integers, Sequences, FiniteSets, TLC

VARIABLES
    \* ---- Vuex store state (store/index.js 11-60)
    knowledgeBases, documents, currentQuestion, currentAnswer,
    reviewSession, reviewHistory, aiConfig,
    loadingStates, errors, successMessage,
    \* ---- ReviewView refs (part_003 295-306)
    userAnswer, showAnswer, currentAnswerResult, currentQuestionIndex,
    reviewCompleted, reviewSummary,
    \* ---- SettingsView state (part_003 1036-1050)
    configForm, testResult, formErrors,
    \* ---- DocumentsView data (part_001 171-178) and the el-upload requests
    uploadingFiles, uploadRequests,
    \* ---- AIQuizView: route.params.id and the confirmation box of
    \* startNewQuestion (views/AIQuizView.vue 216-307)
    routeId, confirmBox,
    \* ---- the SQLite database (moon_reader/migrations/001_initial.sql) and
    \* the knowledge base whose deletion last removed dependent rows
    db, lastCascade,
    \* ---- HistoryView refs (views/HistoryView.vue 340-347) and the time
    \* zone of the browser, in hours east of UTC
    dateRange, scoreFilter, currentPage, tzOffset,
    \* ---- delete confirmation (utils/confirmDialog.js): the message boxes
    \* on screen and what showConfirmDialog returned last
    dialogs, dialogResult,
    \* ---- what the store action that settled last handed to its caller,
    \* and the number of calls made so far
    actionResult, calls,
    \* ---- APICache (unnamed/part_004 38-74): the Map, Date.now(), the last
    \* set of each key since the last clear, and what get returned last
    cache, now, lastSet, getResult,
    \* ---- useOptimizedAPI (unnamed/part_004 114-178): the useCache option,
    \* the refs, the pending apiFunction calls, what execute returned last
    useCache, apiData, apiError, apiLoading, apiPending, execReturn,
    \* ---- APIBatcher (unnamed/part_004 321-376): queue and timeoutId, the
    \* timers not yet fired, the batches awaiting Promise.allSettled, every
    \* request added so far, and the number of timers created
    batcherQueue, batcherTimeoutId, batcherTimers, batcherBatches,
    batcherRequests, batcherTimerCount,
    \* ---- debounce (unnamed/part_004 10-16): the pending timer, and the
    \* calls and the invocations of func so far
    debounceTimer, debounceCalls, debounceInvoked,
    \* ---- throttle (unnamed/part_004 24-33): inThrottle, the pending
    \* timer, and the calls and the invocations of func so far
    inThrottle, throttleTimer, throttleCalls, throttleInvoked,
    \* ---- state.currentKnowledgeBase (store/index.js 14), the review
    \* view's reviewStats (part_003 302-306), and the view the router shows
    currentKnowledgeBase, reviewStats, activeView,
    \* ---- environment: HTTP requests awaiting their response
    inflight,
    \* ---- history of the current review run (what the run has collected)
    runScores, runSaves

storeData == <<knowledgeBases, documents, currentQuestion, currentAnswer,
               reviewSession, reviewHistory, aiConfig>>
storeUi   == <<loadingStates, errors, successMessage>>
reviewVars == <<userAnswer, showAnswer, currentAnswerResult,
                currentQuestionIndex, reviewCompleted, reviewSummary,
                runScores, runSaves>>
settingsVars == <<configForm, testResult, formErrors>>
uploadVars == <<uploadingFiles, uploadRequests>>
quizVars == <<routeId, confirmBox>>
\* the state of the views other than review, settings and documents
dbVars == <<db, lastCascade>>
historyVars == <<dateRange, scoreFilter, currentPage, tzOffset>>
deleteVars == <<dialogs, dialogResult>>
storeCallVars == <<actionResult, calls>>
cacheVars == <<cache, now, lastSet, getResult>>
apiVars == <<useCache, apiData, apiError, apiLoading, apiPending, execReturn>>
batcherVars == <<batcherQueue, batcherTimeoutId, batcherTimers,
                 batcherBatches, batcherRequests, batcherTimerCount>>
debounceVars == <<debounceTimer, debounceCalls, debounceInvoked>>
throttleVars == <<inThrottle, throttleTimer, throttleCalls, throttleInvoked>>
navVars == <<currentKnowledgeBase, reviewStats, activeView>>
moreVars == <<batcherVars, debounceVars, throttleVars, navVars>>
utilVars == <<storeCallVars, cacheVars, apiVars, moreVars>>
otherVars == <<quizVars, dbVars, historyVars, deleteVars, utilVars>>
vars == <<storeData, storeUi, reviewVars, settingsVars, uploadVars,
          otherVars, inflight>>

-----------------------------------------------------------------------------
(* Bounds of the model *)
MaxInflight == 2        \* requests awaiting a response at the same time
MaxIndex == 5           \* cap on currentQuestionIndex (the code has none)
MaxRunSaves == 2        \* cap on the saves counted in one review run
MaxUploads == 1         \* files in the upload list at the same time
MaxTokens == 3          \* pieces a file name of the model is built from
MaxRows == 2            \* primary keys of each dependent table
MaxHistory == 3         \* sessions of a short review history
MaxDay == 1             \* last calendar day of the date picker
MaxDialogs == 1         \* confirmation dialogs on screen at the same time
MaxCalls == 2           \* calls made in one behaviour of the store or the API
MaxTime == 3            \* last instant of Date.now()
MaxRequests == 3        \* requests added to the batcher in one behaviour

(* Program constants *)
totalQuestions == 5

Null == "null"
NullObj == [null |-> TRUE]      \* a JavaScript null where an object may stand
EmptyObj == [empty |-> TRUE]    \* the JavaScript object {}

Modules == {"knowledgeBases", "documents", "aiQuiz", "aiConfig", "review"}
Questions == {"q1", "q2"}
Scores == {60}
Durations == {10}
UserAnswers == {"", " a ", "a"}
ServerError == "server error text"
KB == "kb1"

\* String.prototype.trim on the answers of the model
Trim(s) == IF s = " a " THEN "a" ELSE s

-----------------------------------------------------------------------------
(* Store mutations (store/index.js 102-223) *)

SET_MODULE_LOADING(ls, module, loading) == [ls EXCEPT ![module] = loading]

SET_MODULE_ERROR(es, module, error) == [es EXCEPT ![module] = error]

CLEAR_MODULE_ERROR(es, module) == [es EXCEPT ![module] = Null]

\* error.response?.data?.error || "<default message>"
ErrorMessage(e, default) == IF e = Null THEN default ELSE e

\* the failures a request can meet: with or without a server error text
Failures == {Null, ServerError}

isModuleLoading(module) == loadingStates[module]

FreeId == CHOOSE i \in 1..MaxInflight :
            /\ \A r \in inflight : r.id # i
            /\ \A j \in 1..(i - 1) : \E r \in inflight : r.id = j

\* The synchronous head of every store action: SET_MODULE_LOADING true,
\* CLEAR_MODULE_ERROR, then the axios call is issued.
DispatchAmong(pending, kind, module, payload) ==
    /\ Cardinality(inflight) < MaxInflight
    /\ loadingStates' = SET_MODULE_LOADING(loadingStates, module, TRUE)
    /\ errors' = CLEAR_MODULE_ERROR(errors, module)
    /\ inflight' = pending \cup
                     {[id |-> FreeId, kind |-> kind, payload |-> payload]}

Dispatch(kind, module, payload) ==
    DispatchAmong(inflight, kind, module, payload)

\* catch + finally of every store action
Rejected(r, module, e, default) ==
    /\ inflight' = inflight \ {r}
    /\ errors' = SET_MODULE_ERROR(errors, module, ErrorMessage(e, default))
    /\ loadingStates' = SET_MODULE_LOADING(loadingStates, module, FALSE)

\* finally of every store action on the success path
Settled(r, module) ==
    /\ inflight' = inflight \ {r}
    /\ loadingStates' = SET_MODULE_LOADING(loadingStates, module, FALSE)

-----------------------------------------------------------------------------
(* ReviewView (unnamed/part_003 1-524) *)

isLoading == isModuleLoading("review")

hasDocuments == Len(documents) > 0

isAIConfigured ==
    IF aiConfig.provider = "local"
    THEN aiConfig.api_url # "" /\ aiConfig.api_url # Null
    ELSE /\ "api_key_configured" \in DOMAIN aiConfig
         /\ aiConfig.api_key_configured = TRUE
         /\ aiConfig.provider # ""

\* v-if of the question card
QuestionCardVisible ==
    currentQuestion # Null /\ hasDocuments /\ isAIConfigured

\* the answer textarea accepts input
AnswerInputEnabled == QuestionCardVisible /\ ~(isLoading \/ showAnswer)

\* the header button "start review" can be clicked (an el-button that is
\* loading or disabled does not emit click)
StartButtonEnabled == hasDocuments /\ ~isLoading

\* the "submit answer" button is rendered and can be clicked
SubmitButtonEnabled ==
    QuestionCardVisible /\ ~showAnswer /\ ~isLoading /\ Trim(userAnswer) # ""

\* the "next question" button is rendered and can be clicked
NextButtonEnabled == QuestionCardVisible /\ showAnswer /\ ~isLoading

\* the "finish review" button is rendered and can be clicked
FinishButtonEnabled ==
    /\ QuestionCardVisible /\ showAnswer /\ ~isLoading
    /\ currentQuestionIndex = totalQuestions - 1

\* the summary card with "review again" is rendered
SummaryCardVisible == reviewCompleted

TypeAnswer(a) ==
    /\ AnswerInputEnabled
    /\ userAnswer' = a
    /\ UNCHANGED <<storeData, storeUi, showAnswer, currentAnswerResult,
                   currentQuestionIndex, reviewCompleted, reviewSummary,
                   runScores, runSaves, settingsVars, uploadVars, otherVars,
                   inflight>>

\* generateNewQuestion up to its await
GenerateNewQuestionBegin ==
    /\ showAnswer' = FALSE
    /\ currentAnswerResult' = NullObj
    /\ userAnswer' = ""
    /\ Dispatch("getRandomReviewQuestion", "review",
                [knowledgeBaseId |-> routeId])

\* finishReview up to its await; d is the value of the mock duration
FinishReviewBegin(d) ==
    /\ reviewSummary' = [totalQuestions |-> totalQuestions,
                         averageScore |-> 85,
                         duration |-> d]
    /\ Dispatch("saveReviewSession", "review",
                [knowledge_base_id |-> KB,
                 questions_count |-> totalQuestions,
                 average_score |-> reviewSummary'.averageScore,
                 duration |-> reviewSummary'.duration])

\* startReviewSession up to the await inside generateNewQuestion
StartReviewSessionBegin ==
    /\ reviewCompleted' = FALSE
    /\ currentQuestionIndex' = 0
    /\ GenerateNewQuestionBegin
    /\ runScores' = [sum |-> 0, n |-> 0]
    /\ runSaves' = 0
    /\ UNCHANGED <<storeData, successMessage, reviewSummary, settingsVars,
                   uploadVars, otherVars>>

StartReviewSession ==
    /\ StartButtonEnabled
    /\ StartReviewSessionBegin

StartNewReview ==
    /\ SummaryCardVisible
    /\ StartReviewSessionBegin

SubmitAnswer ==
    /\ SubmitButtonEnabled
    /\ Dispatch("submitAnswer", "aiQuiz",
                [questionId |-> currentQuestion, answer |-> Trim(userAnswer)])
    /\ UNCHANGED <<storeData, successMessage, reviewVars, settingsVars,
                   uploadVars, otherVars>>

NextQuestion ==
    /\ NextButtonEnabled
    /\ currentQuestionIndex < MaxIndex
    /\ currentQuestionIndex' = currentQuestionIndex + 1
    /\ IF currentQuestionIndex' < totalQuestions
       THEN /\ GenerateNewQuestionBegin
            /\ UNCHANGED reviewSummary
       ELSE /\ \E d \in Durations : FinishReviewBegin(d)
            /\ UNCHANGED <<showAnswer, currentAnswerResult, userAnswer>>
    /\ UNCHANGED <<storeData, successMessage, reviewCompleted, runScores,
                   runSaves, settingsVars, uploadVars, otherVars>>

FinishReview ==
    /\ FinishButtonEnabled
    /\ \E d \in Durations : FinishReviewBegin(d)
    /\ UNCHANGED <<storeData, successMessage, userAnswer, showAnswer,
                   currentAnswerResult, currentQuestionIndex,
                   reviewCompleted, runScores, runSaves, settingsVars,
                   uploadVars, otherVars>>

(* Responses of the review requests: the store action's continuation, then
   the continuation of the view method that awaited it. *)

GetRandomReviewQuestionResolved(r, q) ==
    /\ r.kind = "getRandomReviewQuestion"
    /\ currentQuestion' = q
    /\ Settled(r, "review")
    /\ UNCHANGED <<knowledgeBases, documents, currentAnswer, reviewSession,
                   reviewHistory, aiConfig, errors, successMessage,
                   reviewVars, settingsVars, uploadVars, otherVars>>

GetRandomReviewQuestionRejected(r, e) ==
    /\ r.kind = "getRandomReviewQuestion"
    /\ Rejected(r, "review", e, "get review question failed")
    /\ UNCHANGED <<storeData, successMessage, reviewVars, settingsVars,
                   uploadVars, otherVars>>

\* what the view does with the result of a resolved submitAnswer
SubmitAnswerShown(result) ==
    /\ currentAnswerResult' = result
    /\ showAnswer' = TRUE

\* a catch block that falls through to the result display
SubmitAnswerFailed_shows ==
    /\ showAnswer' = TRUE
    /\ UNCHANGED currentAnswerResult

\* what the view does when submitAnswer rejects (its catch block)
SubmitAnswerFailed ==
    /\ UNCHANGED <<currentAnswerResult, showAnswer>>

SubmitAnswerResolved(r, score) ==
    /\ r.kind = "submitAnswer"
    /\ LET result == [question_id |-> r.payload.questionId,
                      user_answer |-> r.payload.answer,
                      score |-> score]
       IN /\ currentAnswer' = result
          /\ SubmitAnswerShown(result)
    /\ successMessage' = "answer submitted"
    /\ Settled(r, "aiQuiz")
    /\ runScores' = [sum |-> runScores.sum + score, n |-> runScores.n + 1]
    /\ UNCHANGED <<knowledgeBases, documents, currentQuestion, reviewSession,
                   reviewHistory, aiConfig, errors, userAnswer,
                   currentQuestionIndex, reviewCompleted, reviewSummary,
                   runSaves, settingsVars, uploadVars, otherVars>>

SubmitAnswerRejected(r, e) ==
    /\ r.kind = "submitAnswer"
    /\ Rejected(r, "aiQuiz", e, "submit answer failed")
    /\ SubmitAnswerFailed
    /\ UNCHANGED <<storeData, successMessage, userAnswer,
                   currentQuestionIndex, reviewCompleted, reviewSummary,
                   runScores, runSaves, settingsVars, uploadVars, otherVars>>

SaveReviewSessionResolved(r) ==
    /\ r.kind = "saveReviewSession"
    /\ reviewSession' = r.payload
    /\ successMessage' = "review session saved"
    /\ Settled(r, "review")
    /\ reviewCompleted' = TRUE
    /\ runSaves' = IF runSaves < MaxRunSaves THEN runSaves + 1 ELSE runSaves
    /\ UNCHANGED <<knowledgeBases, documents, currentQuestion, currentAnswer,
                   reviewHistory, aiConfig, errors, userAnswer, showAnswer,
                   currentAnswerResult, currentQuestionIndex, reviewSummary,
                   runScores, settingsVars, uploadVars, otherVars>>

SaveReviewSessionRejected(r, e) ==
    /\ r.kind = "saveReviewSession"
    /\ Rejected(r, "review", e, "save review session failed")
    /\ UNCHANGED <<storeData, successMessage, reviewVars, settingsVars,
                   uploadVars, otherVars>>

\* a configuration the server returned to fetchAIConfig, merged into the
\* store's default: the review view is usable
ConfiguredLocal ==
    [provider |-> "local", api_key |-> "", api_url |-> "u1",
     model_name |-> "m1", max_tokens |-> 1000, temperature |-> 7]

\* the database after the migration: every table empty
EmptyDb == [knowledge_bases |-> {}, documents |-> {}, questions |-> {},
            answers |-> {}, review_sessions |-> {}]

CacheKeys == {"k1", "k2"}

\* new Map()
EmptyCache == [k \in CacheKeys |-> NullObj]

\* the text shown where no review has been recorded, and a date shown as
\* text: a sequence that is empty or holds the calendar day
NoRecord == <<>>

\* ref({ totalSessions: 0, averageScore: 0, lastReviewDate: "no records" })
DefaultStats ==
    [totalSessions |-> 0, averageScore |-> 0, lastReviewDate |-> NoRecord]

\* no current knowledge base, the review statistics as created, and a view
\* that the spec in use does not follow
NavIdle ==
    /\ currentKnowledgeBase = Null
    /\ reviewStats = DefaultStats
    /\ activeView = "none"

\* new APIBatcher(), and a debounced and a throttled function not yet called
MoreIdle ==
    /\ batcherQueue = <<>>
    /\ batcherTimeoutId = 0
    /\ batcherTimers = {}
    /\ batcherBatches = {}
    /\ batcherRequests = <<>>
    /\ batcherTimerCount = 0
    /\ debounceTimer = NullObj
    /\ debounceCalls = <<>>
    /\ debounceInvoked = <<>>
    /\ inThrottle = FALSE
    /\ throttleTimer = NullObj
    /\ throttleCalls = <<>>
    /\ throttleInvoked = <<>>

\* no store action was called by the spec in use, the cache is empty and
\* the composable is not in use
UtilitiesIdle ==
    /\ MoreIdle
    /\ NavIdle
    /\ actionResult = NullObj
    /\ calls = 0
    /\ cache = EmptyCache
    /\ now = 0
    /\ lastSet = EmptyCache
    /\ getResult = NullObj
    /\ useCache = TRUE
    /\ apiData = Null
    /\ apiError = Null
    /\ apiLoading = FALSE
    /\ apiPending = {}
    /\ execReturn = NullObj

\* no confirmation dialog has been opened
DeleteViewIdle ==
    /\ dialogs = {}
    /\ dialogResult = NullObj

\* the refs of a history view that is not in use
HistoryViewIdle ==
    /\ dateRange = <<>>
    /\ scoreFilter = ""
    /\ currentPage = 1
    /\ tzOffset = 0

\* the other views are not in use
OtherViewsIdle ==
    /\ routeId = KB
    /\ confirmBox = "closed"
    /\ db = EmptyDb
    /\ lastCascade = Null
    /\ DeleteViewIdle
    /\ UtilitiesIdle
    /\ HistoryViewIdle

NoLoading == [m \in Modules |-> FALSE]
NoErrors == [m \in Modules |-> Null]

\* The review view after onMounted has loaded the documents of the
\* knowledge base and the AI configuration.
InitReview ==
    /\ OtherViewsIdle
    /\ knowledgeBases = <<KB>>
    /\ documents = <<"d1">>
    /\ currentQuestion = Null
    /\ currentAnswer = NullObj
    /\ reviewSession = NullObj
    /\ reviewHistory = <<>>
    /\ aiConfig = ConfiguredLocal
    /\ loadingStates = NoLoading
    /\ errors = NoErrors
    /\ successMessage = Null
    /\ userAnswer = ""
    /\ showAnswer = FALSE
    /\ currentAnswerResult = NullObj
    /\ currentQuestionIndex = 0
    /\ reviewCompleted = FALSE
    /\ reviewSummary = EmptyObj
    /\ configForm = ConfiguredLocal
    /\ testResult = NullObj
    /\ formErrors = {}
    /\ uploadingFiles = <<>>
    /\ uploadRequests = {}
    /\ inflight = {}
    /\ runScores = [sum |-> 0, n |-> 0]
    /\ runSaves = 0

NextReview ==
    \/ \E a \in UserAnswers : TypeAnswer(a)
    \/ StartReviewSession
    \/ StartNewReview
    \/ SubmitAnswer
    \/ NextQuestion
    \/ FinishReview
    \/ \E r \in inflight, q \in Questions : GetRandomReviewQuestionResolved(r, q)
    \/ \E r \in inflight, e \in Failures : GetRandomReviewQuestionRejected(r, e)
    \/ \E r \in inflight, s \in Scores : SubmitAnswerResolved(r, s)
    \/ \E r \in inflight, e \in Failures : SubmitAnswerRejected(r, e)
    \/ \E r \in inflight : SaveReviewSessionResolved(r)
    \/ \E r \in inflight, e \in Failures : SaveReviewSessionRejected(r, e)

SpecReview == InitReview /\ [][NextReview]_vars

-----------------------------------------------------------------------------
(* AI configuration: store mutation and actions (store/index.js 219-222,
   448-495) and SettingsView (unnamed/part_003 721-1241) *)

ConfigFields == {"provider", "api_key", "api_url", "model_name",
                 "max_tokens", "temperature"}

\* SET_AI_CONFIG: state.aiConfig = { ...state.aiConfig, ...config }
SET_AI_CONFIG(old, config) ==
    [f \in (DOMAIN old) \cup (DOMAIN config) |->
        IF f \in DOMAIN config THEN config[f] ELSE old[f]]

\* the store's initial aiConfig, also the initial configForm
DefaultConfig ==
    [provider |-> "deepseek", api_key |-> "", api_url |-> "",
     model_name |-> "", max_tokens |-> 1000, temperature |-> 7]

Providers == {"deepseek", "openai", "local"}
ApiKeys == {"", "k1"}
ApiUrls == {""}
ModelNames == {"", "m1"}
OpenAIUrl == "https://api.openai.com/v1"
LocalUrl == "http://localhost:11434/api/generate"

\* the options of the model select of a hosted provider
ModelOptions(provider) ==
    IF provider = "deepseek" THEN {"deepseek-chat"}
    ELSE IF provider = "openai" THEN {"gpt-3.5-turbo"}
    ELSE {}

\* The body the server answers GET and POST /ai-config with, for the
\* configuration c it holds: every field, or the key withheld and
\* api_key_configured sent in its place (the field ReviewView reads).
ResponseShapes == {"full", "masked"}

ResponseData(c, shape) ==
    IF shape = "full" THEN c
    ELSE [provider |-> c.provider, api_url |-> c.api_url,
          model_name |-> c.model_name, max_tokens |-> c.max_tokens,
          temperature |-> c.temperature,
          api_key_configured |-> (c.api_key # "")]

\* the form items rendered for a provider (template 751-882): only these
\* props are validated by el-form's validate()
RenderedProps(provider) ==
    IF provider = "deepseek" THEN {"provider", "api_key", "model_name"}
    ELSE IF provider = "openai"
         THEN {"provider", "api_key", "api_url", "model_name"}
         ELSE {"provider", "api_url", "model_name"}

\* configRules with the provider test of the api_key validator inverted
RuleFails_inverted(form, f) ==
    IF f = "provider" THEN form.provider = ""
    ELSE IF f = "api_key" THEN form.provider = "local" /\ form.api_key = ""
    ELSE IF f = "api_url" THEN form.provider = "local" /\ form.api_url = ""
    ELSE form.model_name = ""

\* configRules: the rule of prop f fails on the form
RuleFails(form, f) ==
    IF f = "provider" THEN form.provider = ""
    ELSE IF f = "api_key" THEN form.provider # "local" /\ form.api_key = ""
    ELSE IF f = "api_url" THEN form.provider = "local" /\ form.api_url = ""
    ELSE form.model_name = ""

\* the fields validate() rejects with
ValidationErrors(form) ==
    {f \in RenderedProps(form.provider) : RuleFails(form, f)}

isConfigValid ==
    IF configForm.provider = "local"
    THEN configForm.api_url # "" /\ configForm.model_name # ""
    ELSE configForm.api_key # "" /\ configForm.model_name # ""

saving == isModuleLoading("aiConfig")
testing == isModuleLoading("aiConfig")

\* the values onProviderChange leaves in the form
ProviderDefaults(form, provider) ==
    [form EXCEPT
        !.api_key = "",
        !.api_url = IF provider = "openai" THEN OpenAIUrl
                    ELSE IF provider = "local" THEN LocalUrl ELSE "",
        !.model_name = IF provider = "deepseek" THEN "deepseek-chat"
                       ELSE IF provider = "openai" THEN "gpt-3.5-turbo"
                       ELSE ""]

\* a request of the settings view remembers whether the component instance
\* that issued it is still the mounted one
FromThisView(r) == r.payload.view = "mounted"

Unmounted(pending) ==
    {[r EXCEPT !.payload = [r.payload EXCEPT !.view = "gone"]] : r \in pending}

settingsOthers == <<knowledgeBases, documents, currentQuestion, currentAnswer,
                    reviewSession, reviewHistory, reviewVars, uploadVars,
                    otherVars>>

\* the radio group: v-model sets provider, @change runs onProviderChange
onProviderChange(provider) ==
    /\ provider # configForm.provider
    /\ configForm' = ProviderDefaults([configForm EXCEPT !.provider = provider],
                                      provider)
    /\ testResult' = NullObj
    /\ UNCHANGED <<settingsOthers, aiConfig, storeUi, formErrors, inflight>>

EditApiKey(v) ==
    /\ "api_key" \in RenderedProps(configForm.provider)
    /\ configForm' = [configForm EXCEPT !.api_key = v]
    /\ UNCHANGED <<settingsOthers, aiConfig, storeUi, testResult, formErrors,
                   inflight>>

EditApiUrl(v) ==
    /\ "api_url" \in RenderedProps(configForm.provider)
    /\ configForm' = [configForm EXCEPT !.api_url = v]
    /\ UNCHANGED <<settingsOthers, aiConfig, storeUi, testResult, formErrors,
                   inflight>>

EditModelName(v) ==
    /\ IF configForm.provider = "local" THEN v \in ModelNames
       ELSE v \in ModelOptions(configForm.provider)
    /\ configForm' = [configForm EXCEPT !.model_name = v]
    /\ UNCHANGED <<settingsOthers, aiConfig, storeUi, testResult, formErrors,
                   inflight>>

\* resetConfig after the confirmation dialog resolved with "confirm"
resetConfig ==
    /\ configForm' = [DefaultConfig EXCEPT !.model_name = "deepseek-chat"]
    /\ testResult' = NullObj
    /\ UNCHANGED <<settingsOthers, aiConfig, storeUi, formErrors, inflight>>

\* The settings view is left and entered again: a new component instance
\* with the initial form, whose onMounted runs loadConfig.
MountSettings ==
    /\ configForm' = DefaultConfig
    /\ testResult' = NullObj
    /\ formErrors' = {}
    /\ DispatchAmong(Unmounted(inflight), "fetchAIConfig", "aiConfig",
                     [view |-> "mounted"])
    /\ UNCHANGED <<settingsOthers, aiConfig, successMessage>>

\* Object.assign(configForm, {...}) of loadConfig, then the defaults when
\* no model name was loaded
LoadedForm(config) ==
    LET str(f, d) == IF f \in DOMAIN config /\ config[f] # "" THEN config[f]
                     ELSE d
        num(f, d) == IF f \in DOMAIN config /\ config[f] # 0 THEN config[f]
                     ELSE d
        form == [provider |-> str("provider", "deepseek"),
                 api_key |-> str("api_key", ""),
                 api_url |-> str("api_url", ""),
                 model_name |-> str("model_name", ""),
                 max_tokens |-> num("max_tokens", 1000),
                 temperature |-> num("temperature", 7)]
    IN IF form.model_name = "" THEN ProviderDefaults(form, form.provider)
       ELSE form

FetchAIConfigResolved(r, c, shape) ==
    /\ r.kind = "fetchAIConfig"
    /\ aiConfig' = SET_AI_CONFIG(aiConfig, ResponseData(c, shape))
    /\ Settled(r, "aiConfig")
    /\ configForm' = IF FromThisView(r) THEN LoadedForm(aiConfig')
                     ELSE configForm
    /\ UNCHANGED <<settingsOthers, errors, successMessage, testResult,
                   formErrors>>

FetchAIConfigRejected(r, e) ==
    /\ r.kind = "fetchAIConfig"
    /\ Rejected(r, "aiConfig", e, "fetch AI config failed")
    /\ UNCHANGED <<settingsOthers, aiConfig, successMessage, settingsVars>>

\* saveConfig: validate() rejects on an invalid form and the form shows the
\* failing fields (the catch block reports the failure); otherwise
\* saveAIConfig is dispatched with a copy of the form
saveConfig ==
    /\ ~saving
    /\ IF ValidationErrors(configForm) # {}
       THEN /\ formErrors' = ValidationErrors(configForm)
            /\ UNCHANGED <<storeUi, inflight, testResult>>
       ELSE /\ formErrors' = {}
            /\ testResult' = NullObj
            /\ Dispatch("saveAIConfig", "aiConfig",
                        [config |-> configForm, view |-> "mounted"])
            /\ UNCHANGED <<successMessage>>
    /\ UNCHANGED <<settingsOthers, aiConfig, configForm>>

SaveAIConfigResolved(r, shape) ==
    /\ r.kind = "saveAIConfig"
    /\ aiConfig' = SET_AI_CONFIG(aiConfig, ResponseData(r.payload.config, shape))
    /\ successMessage' = "AI config saved"
    /\ Settled(r, "aiConfig")
    /\ UNCHANGED <<settingsOthers, errors, settingsVars>>

SaveAIConfigRejected(r, e) ==
    /\ r.kind = "saveAIConfig"
    /\ Rejected(r, "aiConfig", e, "save AI config failed")
    /\ UNCHANGED <<settingsOthers, aiConfig, successMessage, settingsVars>>

testConnection ==
    /\ isConfigValid
    /\ ~testing
    /\ testResult' = NullObj
    /\ Dispatch("testAIConnection", "aiConfig", [view |-> "mounted"])
    /\ UNCHANGED <<settingsOthers, aiConfig, successMessage, configForm,
                   formErrors>>

\* a connection test that commits the tested configuration like a save
TestAIConnectionResolved_commits(r) ==
    /\ r.kind = "testAIConnection"
    /\ aiConfig' = SET_AI_CONFIG(aiConfig, configForm)
    /\ successMessage' = "AI connection test succeeded"
    /\ Settled(r, "aiConfig")
    /\ testResult' = [success |-> TRUE, message |-> "connection ok"]
    /\ UNCHANGED <<settingsOthers, errors, configForm, formErrors>>

TestAIConnectionResolved(r) ==
    /\ r.kind = "testAIConnection"
    /\ successMessage' = "AI connection test succeeded"
    /\ Settled(r, "aiConfig")
    /\ testResult' = IF FromThisView(r)
                     THEN [success |-> TRUE, message |-> "connection ok"]
                     ELSE testResult
    /\ UNCHANGED <<settingsOthers, aiConfig, errors, configForm, formErrors>>

TestAIConnectionRejected(r, e) ==
    /\ r.kind = "testAIConnection"
    /\ Rejected(r, "aiConfig", e, "AI connection test failed")
    /\ testResult' = IF FromThisView(r)
                     THEN [success |-> FALSE, message |-> "connection failed"]
                     ELSE testResult
    /\ UNCHANGED <<settingsOthers, aiConfig, successMessage, configForm,
                   formErrors>>

\* the configurations the server may hold when it answers fetchAIConfig
ServerConfigs ==
    { DefaultConfig,
      [DefaultConfig EXCEPT !.api_key = "k1", !.model_name = "deepseek-chat"],
      [DefaultConfig EXCEPT !.provider = "local", !.api_url = LocalUrl,
                            !.model_name = "m1"] }

\* The settings view right after it is created: the store in its initial
\* state, loadConfig's fetchAIConfig in flight.
InitSettings ==
    /\ OtherViewsIdle
    /\ knowledgeBases = <<>>
    /\ documents = <<>>
    /\ currentQuestion = Null
    /\ currentAnswer = NullObj
    /\ reviewSession = NullObj
    /\ reviewHistory = <<>>
    /\ aiConfig = DefaultConfig
    /\ loadingStates = [NoLoading EXCEPT !["aiConfig"] = TRUE]
    /\ errors = NoErrors
    /\ successMessage = Null
    /\ userAnswer = ""
    /\ showAnswer = FALSE
    /\ currentAnswerResult = NullObj
    /\ currentQuestionIndex = 0
    /\ reviewCompleted = FALSE
    /\ reviewSummary = EmptyObj
    /\ configForm = DefaultConfig
    /\ testResult = NullObj
    /\ formErrors = {}
    /\ uploadingFiles = <<>>
    /\ uploadRequests = {}
    /\ inflight = {[id |-> 1, kind |-> "fetchAIConfig",
                    payload |-> [view |-> "mounted"]]}
    /\ runScores = [sum |-> 0, n |-> 0]
    /\ runSaves = 0

NextSettings ==
    \/ \E p \in Providers : onProviderChange(p)
    \/ \E v \in ApiKeys : EditApiKey(v)
    \/ \E v \in ApiUrls : EditApiUrl(v)
    \/ \E v \in ModelNames \cup ModelOptions(configForm.provider) :
          EditModelName(v)
    \/ resetConfig
    \/ saveConfig
    \/ testConnection
    \/ \E r \in inflight, c \in ServerConfigs, sh \in ResponseShapes :
          FetchAIConfigResolved(r, c, sh)
    \/ \E r \in inflight, e \in Failures : FetchAIConfigRejected(r, e)
    \/ \E r \in inflight, sh \in ResponseShapes : SaveAIConfigResolved(r, sh)
    \/ \E r \in inflight, e \in Failures : SaveAIConfigRejected(r, e)
    \/ \E r \in inflight : TestAIConnectionResolved(r)
    \/ \E r \in inflight, e \in Failures : TestAIConnectionRejected(r, e)

\* one mounted settings view
SpecSettings == InitSettings /\ [][NextSettings]_vars

NextSettingsNav ==
    \/ NextSettings
    \/ MountSettings

\* the settings view with navigation away from it and back
SpecSettingsNav == InitSettings /\ [][NextSettingsNav]_vars

-----------------------------------------------------------------------------
(* DocumentsView: upload (unnamed/part_001 250-320) and the store's
   fetchDocuments (store/index.js 328-346) *)

\* 50 * 1024 * 1024
maxSize == 50 * 1024 * 1024

allowedExtensions == {<<"p", "d", "f">>, <<"e", "p", "u", "b">>,
                      <<"t", "x", "t">>}

\* A file name is a sequence of characters; the names of the model are
\* built from these pieces.
NameTokens == {<<"p", "d", "f">>, <<"P", "D", "F">>, <<"t", "x", "t">>,
               <<"e", "p", "u", "b">>, <<"e", "x", "e">>, <<".">>, <<"a">>}

RECURSIVE Flatten(_)
Flatten(ts) == IF ts = <<>> THEN <<>> ELSE Head(ts) \o Flatten(Tail(ts))

FileNames ==
    {Flatten(ts) : ts \in UNION {[1..n -> NameTokens] : n \in 1..MaxTokens}}

FileSizes == {maxSize, maxSize + 1}

\* String.prototype.split("."): the pieces between the dots
RECURSIVE SplitDot(_, _, _)
SplitDot(name, piece, done) ==
    IF name = <<>> THEN Append(done, piece)
    ELSE IF Head(name) = "." THEN SplitDot(Tail(name), <<>>, Append(done, piece))
    ELSE SplitDot(Tail(name), Append(piece, Head(name)), done)

split(name) == SplitDot(name, <<>>, <<>>)

\* Array.prototype.pop: the last element
pop(pieces) == pieces[Len(pieces)]

LowerChar(c) ==
    IF c = "P" THEN "p" ELSE IF c = "D" THEN "d" ELSE IF c = "F" THEN "f"
    ELSE c

toLowerCase(str) == [i \in 1..Len(str) |-> LowerChar(str[i])]

\* the value beforeUpload returns for a file
beforeUploadAccepts(file) ==
    LET fileExtension == toLowerCase(pop(split(file.name)))
    IN IF fileExtension \notin allowedExtensions THEN FALSE
       ELSE IF file.size > maxSize THEN FALSE
       ELSE TRUE

FreeUid == CHOOSE u \in 1..MaxUploads :
             /\ \A i \in 1..Len(uploadingFiles) : uploadingFiles[i].uid # u
             /\ \A q \in uploadRequests : q.uid # u
             /\ \A v \in 1..(u - 1) :
                   \/ \E i \in 1..Len(uploadingFiles) : uploadingFiles[i].uid = v
                   \/ \E q \in uploadRequests : q.uid = v

UidsInUse == {uploadingFiles[i].uid : i \in 1..Len(uploadingFiles)}
               \cup {q.uid : q \in uploadRequests}

uploadOthers == <<knowledgeBases, currentQuestion, currentAnswer,
                  reviewSession, reviewHistory, aiConfig, reviewVars,
                  settingsVars, otherVars>>

\* el-upload calls beforeUpload for a chosen file and posts the file only
\* when it returns true
beforeUpload(name, size) ==
    /\ Cardinality(UidsInUse) < MaxUploads
    /\ LET file == [uid |-> FreeUid, name |-> name, size |-> size]
       IN IF beforeUploadAccepts(file)
          THEN /\ uploadingFiles' = Append(uploadingFiles,
                       [uid |-> file.uid, name |-> file.name,
                        size |-> file.size, progress |-> 0, status |-> ""])
               /\ uploadRequests' = uploadRequests \cup {file}
          ELSE UNCHANGED <<uploadingFiles, uploadRequests>>
    /\ UNCHANGED <<uploadOthers, documents, storeUi, inflight>>

\* uploadingFiles.filter(f => f.uid !== uid)
filterUid(seq, uid) ==
    LET F[i \in 0..Len(seq)] ==
          IF i = 0 THEN <<>>
          ELSE IF seq[i].uid # uid THEN Append(F[i - 1], seq[i])
          ELSE F[i - 1]
    IN F[Len(seq)]

\* uploadingFiles.find(f => f.uid === uid), then the assignment
UpdateUploading(uid, progress, status) ==
    [i \in 1..Len(uploadingFiles) |->
        IF uploadingFiles[i].uid = uid
           /\ \A j \in 1..(i - 1) : uploadingFiles[j].uid # uid
        THEN [uploadingFiles[i] EXCEPT !.progress = progress,
                                       !.status = status]
        ELSE uploadingFiles[i]]

handleUploadProgress(q, percent) ==
    /\ q \in uploadRequests
    /\ uploadingFiles' =
         [i \in 1..Len(uploadingFiles) |->
            IF uploadingFiles[i].uid = q.uid
            THEN [uploadingFiles[i] EXCEPT !.progress = percent]
            ELSE uploadingFiles[i]]
    /\ UNCHANGED <<uploadOthers, documents, storeUi, inflight, uploadRequests>>

\* the upload answered 2xx: mark the entry, then refresh the documents
handleUploadSuccess(q) ==
    /\ q \in uploadRequests
    /\ uploadRequests' = uploadRequests \ {q}
    /\ uploadingFiles' = UpdateUploading(q.uid, 100, "success")
    /\ Dispatch("fetchDocuments", "documents", [knowledgeBaseId |-> KB])
    /\ UNCHANGED <<uploadOthers, documents, successMessage>>

handleUploadError(q) ==
    /\ q \in uploadRequests
    /\ uploadRequests' = uploadRequests \ {q}
    /\ uploadingFiles' =
         [i \in 1..Len(uploadingFiles) |->
            IF uploadingFiles[i].uid = q.uid
            THEN [uploadingFiles[i] EXCEPT !.status = "exception"]
            ELSE uploadingFiles[i]]
    /\ UNCHANGED <<uploadOthers, documents, storeUi, inflight>>

\* the setTimeout callback of handleUploadSuccess / handleUploadError
removeUploading(uid) ==
    /\ \E i \in 1..Len(uploadingFiles) :
          uploadingFiles[i].uid = uid /\ uploadingFiles[i].status # ""
    /\ uploadingFiles' = filterUid(uploadingFiles, uid)
    /\ UNCHANGED <<uploadOthers, documents, storeUi, inflight, uploadRequests>>

\* the document lists the server may answer with
DocumentLists == {<<>>, <<"d1">>, <<"d1", "d2">>}

FetchDocumentsResolved(r, docs) ==
    /\ r.kind = "fetchDocuments"
    /\ documents' = docs
    /\ Settled(r, "documents")
    /\ UNCHANGED <<uploadOthers, errors, successMessage, uploadVars>>

FetchDocumentsRejected(r, e) ==
    /\ r.kind = "fetchDocuments"
    /\ Rejected(r, "documents", e, "fetch documents failed")
    /\ UNCHANGED <<uploadOthers, documents, successMessage, uploadVars>>

\* The documents view after its data was loaded.
InitUpload ==
    /\ OtherViewsIdle
    /\ knowledgeBases = <<KB>>
    /\ documents = <<>>
    /\ currentQuestion = Null
    /\ currentAnswer = NullObj
    /\ reviewSession = NullObj
    /\ reviewHistory = <<>>
    /\ aiConfig = DefaultConfig
    /\ loadingStates = NoLoading
    /\ errors = NoErrors
    /\ successMessage = Null
    /\ userAnswer = ""
    /\ showAnswer = FALSE
    /\ currentAnswerResult = NullObj
    /\ currentQuestionIndex = 0
    /\ reviewCompleted = FALSE
    /\ reviewSummary = EmptyObj
    /\ configForm = DefaultConfig
    /\ testResult = NullObj
    /\ formErrors = {}
    /\ uploadingFiles = <<>>
    /\ uploadRequests = {}
    /\ inflight = {}
    /\ runScores = [sum |-> 0, n |-> 0]
    /\ runSaves = 0

NextUpload ==
    \/ \E name \in FileNames, size \in FileSizes : beforeUpload(name, size)
    \/ \E q \in uploadRequests : handleUploadProgress(q, 50)
    \/ \E q \in uploadRequests : handleUploadSuccess(q)
    \/ \E q \in uploadRequests : handleUploadError(q)
    \/ \E u \in 1..MaxUploads : removeUploading(u)
    \/ \E r \in inflight, docs \in DocumentLists : FetchDocumentsResolved(r, docs)
    \/ \E r \in inflight, e \in Failures : FetchDocumentsRejected(r, e)

SpecUpload == InitUpload /\ [][NextUpload]_vars


-----------------------------------------------------------------------------
(* AIQuizView (views/AIQuizView.vue) with the store's generateQuestion
   (store/index.js 410-427), submitAnswer, fetchDocuments and fetchAIConfig *)

\* the knowledge bases route.params.id ranges over
KnowledgeBaseIds == {"kb1", "kb2"}

\* the document lists the server may answer fetchDocuments(k) with
DocumentsOf(k) == {<<>>, <<[id |-> "d1", knowledge_base_id |-> k]>>}

QuizDocumentLists == UNION {DocumentsOf(k) : k \in KnowledgeBaseIds}

\* getDocumentsByKnowledgeBase: state.documents.filter(doc =>
\* doc.knowledge_base_id === knowledgeBaseId)
getDocumentsByKnowledgeBase(knowledgeBaseId) ==
    {i \in 1..Len(documents) :
        documents[i].knowledge_base_id = knowledgeBaseId}

\* documents.value.length > 0 for the documents of route.params.id
quizHasDocuments == getDocumentsByKnowledgeBase(routeId) # {}

quizIsAIConfigured ==
    IF aiConfig.provider = "local" THEN aiConfig.api_url # ""
    ELSE aiConfig.api_key # "" /\ aiConfig.provider # ""

\* v-if of the quiz view's question card
quizCardVisible ==
    currentQuestion # Null /\ quizHasDocuments /\ quizIsAIConfigured

quizOthers == <<knowledgeBases, reviewSession, reviewHistory, showAnswer,
                currentQuestionIndex, reviewCompleted, reviewSummary,
                runScores, runSaves, settingsVars, uploadVars, dbVars,
                historyVars, deleteVars, utilVars>>

\* generateNewQuestion up to its await
quizGenerateNewQuestion ==
    /\ currentAnswerResult' = NullObj
    /\ userAnswer' = ""
    /\ Dispatch("generateQuestion", "aiQuiz", [knowledgeBaseId |-> routeId])
    /\ UNCHANGED <<quizOthers, documents, currentQuestion, currentAnswer,
                   aiConfig, successMessage, routeId>>

\* the header button: the getter isLoading reads state.loading, which no
\* action sets, so only !hasDocuments disables the button
GenerateClick ==
    /\ quizHasDocuments
    /\ quizGenerateNewQuestion
    /\ UNCHANGED confirmBox

quizTypeAnswer(a) ==
    /\ quizCardVisible
    /\ currentAnswerResult = NullObj
    /\ userAnswer' = a
    /\ UNCHANGED <<quizOthers, storeData, storeUi, currentAnswerResult,
                   quizVars, inflight>>

quizSubmitAnswer ==
    /\ quizCardVisible
    /\ currentAnswerResult = NullObj
    /\ Trim(userAnswer) # ""
    /\ Dispatch("submitAnswer", "aiQuiz",
                [questionId |-> currentQuestion, answer |-> Trim(userAnswer)])
    /\ UNCHANGED <<quizOthers, storeData, successMessage, userAnswer,
                   currentAnswerResult, quizVars>>

\* startNewQuestion up to the await of ElMessageBox.confirm
startNewQuestion ==
    /\ quizCardVisible
    /\ currentAnswerResult # NullObj
    /\ confirmBox = "closed"
    /\ confirmBox' = "open"
    /\ UNCHANGED <<quizOthers, storeData, storeUi, userAnswer,
                   currentAnswerResult, routeId, inflight>>

\* the box resolves with "confirm": generateNewQuestion runs
ConfirmNewQuestion ==
    /\ confirmBox = "open"
    /\ confirmBox' = "closed"
    /\ quizGenerateNewQuestion

\* the box rejects (cancel, close): the catch block does nothing
CancelNewQuestion ==
    /\ confirmBox = "open"
    /\ confirmBox' = "closed"
    /\ UNCHANGED <<quizOthers, storeData, storeUi, userAnswer,
                   currentAnswerResult, routeId, inflight>>

\* route.params.id changes while the view stays mounted (another knowledge
\* base is chosen, or the browser goes back or forward): the watcher
\* dispatches fetchDocuments(newId)
quizRouteChange(newId) ==
    /\ newId # routeId
    /\ routeId' = newId
    /\ Dispatch("fetchDocuments", "documents",
                [knowledgeBaseId |-> newId, from |-> "watch"])
    /\ UNCHANGED <<quizOthers, storeData, successMessage, userAnswer,
                   currentAnswerResult, confirmBox>>

GenerateQuestionResolved(r, q) ==
    /\ r.kind = "generateQuestion"
    /\ currentQuestion' = q
    /\ successMessage' = "question generated"
    /\ Settled(r, "aiQuiz")
    /\ UNCHANGED <<quizOthers, documents, currentAnswer, aiConfig, errors,
                   userAnswer, currentAnswerResult, quizVars>>

GenerateQuestionRejected(r, e) ==
    /\ r.kind = "generateQuestion"
    /\ Rejected(r, "aiQuiz", e, "generate question failed")
    /\ UNCHANGED <<quizOthers, storeData, successMessage, userAnswer,
                   currentAnswerResult, quizVars>>

quizSubmitAnswerResolved(r, score) ==
    /\ r.kind = "submitAnswer"
    /\ LET result == [question_id |-> r.payload.questionId,
                      user_answer |-> r.payload.answer,
                      score |-> score]
       IN /\ currentAnswer' = result
          /\ currentAnswerResult' = result
    /\ successMessage' = "answer submitted"
    /\ Settled(r, "aiQuiz")
    /\ UNCHANGED <<quizOthers, documents, currentQuestion, aiConfig, errors,
                   userAnswer, quizVars>>

quizSubmitAnswerRejected(r, e) ==
    /\ r.kind = "submitAnswer"
    /\ Rejected(r, "aiQuiz", e, "submit answer failed")
    /\ UNCHANGED <<quizOthers, storeData, successMessage, userAnswer,
                   currentAnswerResult, quizVars>>

\* fetchDocuments answered: SET_DOCUMENTS; onMounted goes on to
\* fetchAIConfig, the watcher clears the question and the answer
quizFetchDocumentsResolved(r, docs) ==
    /\ r.kind = "fetchDocuments"
    /\ docs \in DocumentsOf(r.payload.knowledgeBaseId)
    /\ documents' = docs
    /\ IF r.payload.from = "mounted"
       THEN /\ loadingStates' =
                 SET_MODULE_LOADING(
                    SET_MODULE_LOADING(loadingStates, "documents", FALSE),
                    "aiConfig", TRUE)
            /\ errors' = CLEAR_MODULE_ERROR(errors, "aiConfig")
            /\ inflight' = (inflight \ {r}) \cup
                 {[id |-> r.id, kind |-> "fetchAIConfig",
                   payload |-> [view |-> "quiz"]]}
            /\ UNCHANGED <<currentQuestion, currentAnswerResult, userAnswer>>
       ELSE /\ Settled(r, "documents")
            /\ currentQuestion' = Null
            /\ currentAnswerResult' = NullObj
            /\ userAnswer' = ""
            /\ UNCHANGED errors
    /\ UNCHANGED <<quizOthers, currentAnswer, aiConfig, successMessage,
                   quizVars>>

quizFetchDocumentsRejected(r, e) ==
    /\ r.kind = "fetchDocuments"
    /\ Rejected(r, "documents", e, "fetch documents failed")
    /\ UNCHANGED <<quizOthers, storeData, successMessage, userAnswer,
                   currentAnswerResult, quizVars>>

quizFetchAIConfigResolved(r, c, shape) ==
    /\ r.kind = "fetchAIConfig"
    /\ aiConfig' = SET_AI_CONFIG(aiConfig, ResponseData(c, shape))
    /\ Settled(r, "aiConfig")
    /\ UNCHANGED <<quizOthers, documents, currentQuestion, currentAnswer,
                   errors, successMessage, userAnswer, currentAnswerResult,
                   quizVars>>

quizFetchAIConfigRejected(r, e) ==
    /\ r.kind = "fetchAIConfig"
    /\ Rejected(r, "aiConfig", e, "fetch AI config failed")
    /\ UNCHANGED <<quizOthers, storeData, successMessage, userAnswer,
                   currentAnswerResult, quizVars>>

\* The quiz view right after it is created for a knowledge base: the store
\* in its initial state, onMounted's fetchDocuments in flight.
InitQuiz ==
    /\ knowledgeBases = <<"kb1", "kb2">>
    /\ documents = <<>>
    /\ currentQuestion = Null
    /\ currentAnswer = NullObj
    /\ reviewSession = NullObj
    /\ reviewHistory = <<>>
    /\ aiConfig = DefaultConfig
    /\ loadingStates = [NoLoading EXCEPT !["documents"] = TRUE]
    /\ errors = NoErrors
    /\ successMessage = Null
    /\ userAnswer = ""
    /\ showAnswer = FALSE
    /\ currentAnswerResult = NullObj
    /\ currentQuestionIndex = 0
    /\ reviewCompleted = FALSE
    /\ reviewSummary = EmptyObj
    /\ configForm = DefaultConfig
    /\ testResult = NullObj
    /\ formErrors = {}
    /\ uploadingFiles = <<>>
    /\ uploadRequests = {}
    /\ routeId \in KnowledgeBaseIds
    /\ confirmBox = "closed"
    /\ db = EmptyDb
    /\ lastCascade = Null
    /\ DeleteViewIdle
    /\ UtilitiesIdle
    /\ HistoryViewIdle
    /\ inflight = {[id |-> 1, kind |-> "fetchDocuments",
                    payload |-> [knowledgeBaseId |-> routeId,
                                 from |-> "mounted"]]}
    /\ runScores = [sum |-> 0, n |-> 0]
    /\ runSaves = 0

NextQuiz ==
    \/ GenerateClick
    \/ \E a \in UserAnswers : quizTypeAnswer(a)
    \/ quizSubmitAnswer
    \/ startNewQuestion
    \/ ConfirmNewQuestion
    \/ CancelNewQuestion
    \/ \E k \in KnowledgeBaseIds : quizRouteChange(k)
    \/ \E r \in inflight, q \in Questions : GenerateQuestionResolved(r, q)
    \/ \E r \in inflight, e \in Failures : GenerateQuestionRejected(r, e)
    \/ \E r \in inflight, s \in Scores : quizSubmitAnswerResolved(r, s)
    \/ \E r \in inflight, e \in Failures : quizSubmitAnswerRejected(r, e)
    \/ \E r \in inflight, d \in QuizDocumentLists :
          quizFetchDocumentsResolved(r, d)
    \/ \E r \in inflight, e \in Failures : quizFetchDocumentsRejected(r, e)
    \/ \E r \in inflight, c \in ServerConfigs, sh \in ResponseShapes :
          quizFetchAIConfigResolved(r, c, sh)
    \/ \E r \in inflight, e \in Failures : quizFetchAIConfigRejected(r, e)

SpecQuiz == InitQuiz /\ [][NextQuiz]_vars

-----------------------------------------------------------------------------
(* The database schema (moon_reader/migrations/001_initial.sql): the tables
   with their primary keys and foreign keys, as SQLite executes INSERT and
   DELETE on them with foreign keys enforced (the default of the sqlx
   connection the Cargo.toml builds) *)

\* the state of the front end, which a statement on the database leaves
\* alone
frontEnd == <<storeData, storeUi, reviewVars, settingsVars, uploadVars,
              quizVars, historyVars, deleteVars, utilVars, inflight>>

RowIds == 1..MaxRows

\* the rows of a table with primary key id
HasId(table, id) == \E row \in table : row.id = id

\* INSERT INTO knowledge_bases (id TEXT PRIMARY KEY)
InsertKnowledgeBase(id) ==
    /\ id \notin db.knowledge_bases
    /\ db' = [db EXCEPT !.knowledge_bases = @ \cup {id}]
    /\ lastCascade' = IF lastCascade = id THEN Null ELSE lastCascade
    /\ UNCHANGED frontEnd

\* INSERT into a table whose knowledge_base_id REFERENCES
\* knowledge_bases(id): a row without parent violates the constraint and
\* the statement fails
InsertOwned(table, id, kb) ==
    /\ ~HasId(db[table], id)
    /\ IF kb \in db.knowledge_bases
       THEN db' = [db EXCEPT ![table] =
                      @ \cup {[id |-> id, knowledge_base_id |-> kb]}]
       ELSE UNCHANGED db
    /\ UNCHANGED <<lastCascade, frontEnd>>

\* INSERT INTO answers: question_id REFERENCES questions(id)
InsertAnswer(id, q) ==
    /\ ~HasId(db.answers, id)
    /\ IF HasId(db.questions, q)
       THEN db' = [db EXCEPT !.answers =
                      @ \cup {[id |-> id, question_id |-> q]}]
       ELSE UNCHANGED db
    /\ UNCHANGED <<lastCascade, frontEnd>>

\* the rows ON DELETE CASCADE removes from answers with the questions qs
AnswersOf(qs) == {a \in db.answers : \E q \in qs : q.id = a.question_id}

\* the rows of a table owned by knowledge base kb
OwnedBy(table, kb) == {row \in db[table] : row.knowledge_base_id = kb}

\* DELETE FROM questions WHERE id = ...: cascades to answers
DeleteQuestion(id) ==
    /\ HasId(db.questions, id)
    /\ LET qs == {q \in db.questions : q.id = id}
       IN db' = [db EXCEPT !.questions = @ \ qs,
                           !.answers = @ \ AnswersOf(qs)]
    /\ UNCHANGED <<lastCascade, frontEnd>>

\* DELETE of a row no other table references
DeleteLeaf(table, id) ==
    /\ HasId(db[table], id)
    /\ db' = [db EXCEPT ![table] = {row \in @ : row.id # id}]
    /\ UNCHANGED <<lastCascade, frontEnd>>

\* a cascade that stops at the questions
CascadeDelete_shallow(kb) ==
    [db EXCEPT !.knowledge_bases = @ \ {kb},
               !.documents = @ \ OwnedBy("documents", kb),
               !.questions = @ \ OwnedBy("questions", kb),
               !.review_sessions = @ \ OwnedBy("review_sessions", kb)]

\* the database after DELETE FROM knowledge_bases WHERE id = kb: ON DELETE
\* CASCADE removes the documents, questions and review_sessions rows of kb,
\* and with the questions their answers
CascadeDelete(kb) ==
    [db EXCEPT !.knowledge_bases = @ \ {kb},
               !.documents = @ \ OwnedBy("documents", kb),
               !.questions = @ \ OwnedBy("questions", kb),
               !.answers = @ \ AnswersOf(OwnedBy("questions", kb)),
               !.review_sessions = @ \ OwnedBy("review_sessions", kb)]

DeleteKnowledgeBaseRow(kb) ==
    /\ kb \in db.knowledge_bases
    /\ db' = CascadeDelete(kb)
    /\ lastCascade' =
          IF /\ OwnedBy("documents", kb) # {}
             /\ AnswersOf(OwnedBy("questions", kb)) # {}
             /\ OwnedBy("review_sessions", kb) # {}
          THEN kb ELSE lastCascade
    /\ UNCHANGED frontEnd

\* the front end idle, the database freshly migrated
InitDb ==
    /\ knowledgeBases = <<>>
    /\ documents = <<>>
    /\ currentQuestion = Null
    /\ currentAnswer = NullObj
    /\ reviewSession = NullObj
    /\ reviewHistory = <<>>
    /\ aiConfig = DefaultConfig
    /\ loadingStates = NoLoading
    /\ errors = NoErrors
    /\ successMessage = Null
    /\ userAnswer = ""
    /\ showAnswer = FALSE
    /\ currentAnswerResult = NullObj
    /\ currentQuestionIndex = 0
    /\ reviewCompleted = FALSE
    /\ reviewSummary = EmptyObj
    /\ configForm = DefaultConfig
    /\ testResult = NullObj
    /\ formErrors = {}
    /\ uploadingFiles = <<>>
    /\ uploadRequests = {}
    /\ inflight = {}
    /\ runScores = [sum |-> 0, n |-> 0]
    /\ runSaves = 0
    /\ OtherViewsIdle

OwnedTables == {"documents", "questions", "review_sessions"}

NextDb ==
    \/ \E kb \in KnowledgeBaseIds : InsertKnowledgeBase(kb)
    \/ \E t \in OwnedTables, id \in RowIds, kb \in KnowledgeBaseIds :
          InsertOwned(t, id, kb)
    \/ \E id \in RowIds, q \in RowIds : InsertAnswer(id, q)
    \/ \E id \in RowIds : DeleteQuestion(id)
    \/ \E t \in {"documents", "answers", "review_sessions"}, id \in RowIds :
          DeleteLeaf(t, id)
    \/ \E kb \in KnowledgeBaseIds : DeleteKnowledgeBaseRow(kb)

SpecDb == InitDb /\ [][NextDb]_vars

-----------------------------------------------------------------------------
(* HistoryView (views/HistoryView.vue 338-560) *)

pageSize == 10

\* A review session as the view reads it: created_at is an instant, counted
\* in hours from 00:00 UTC of day 0.
Session(id, score, duration, created) ==
    [id |-> id, average_score |-> score, duration |-> duration,
     created_at |-> created]

\* rows of one knowledge base in the order the server returns them: oldest
\* first, two of them created in the same hour
ServerRows ==
    <<Session("s1", 90, 10, 20), Session("s2", 69, 20, 30),
      Session("s3", 89, 15, 30), Session("s4", 70, 30, 50),
      Session("s5", 100, 5, 5)>>

\* a history long enough for a second page
LongHistory ==
    [i \in 1..(pageSize + 1) |-> Session(<<"l", i>>, 46 + 4 * i, 10, 2 * i)]

\* what GET /knowledge-bases/:id/history can answer
ServerHistories ==
    {LongHistory} \cup {SubSeq(ServerRows, 1, n) : n \in 0..MaxHistory}

\* the browser's time zone, hours east of UTC
TimeZones == {0, 8}

Days == 0..MaxDay

\* the null the date picker emits when it is cleared, as a one-element
\* sequence so that it can be compared with a range
NullRange == <<Null>>

\* v-model of the date picker: [start, end] as local calendar dates, or
\* null after the picker is cleared
DateRanges ==
    {range \in Days \X Days : range[1] <= range[2]} \cup {NullRange}

ScoreFilters == {"", "excellent", "good", "poor"}

\* new Date(created_at).toISOString().split("T")[0]: the UTC calendar date
ISODate(created_at) == created_at \div 24

\* new Date(created_at).toLocaleDateString(): the local calendar date
formatDate(created_at) == (created_at + tzOffset) \div 24

\* Array.prototype.reduce((sum, session) => sum + field, 0)
RECURSIVE reduceSum(_, _)
reduceSum(sessions, field) ==
    IF sessions = <<>> THEN 0
    ELSE reduceSum(SubSeq(sessions, 1, Len(sessions) - 1), field)
         + sessions[Len(sessions)][field]

\* Math.max(...sessions.map(session => session.average_score))
RECURSIVE mathMax(_)
mathMax(sessions) ==
    IF Len(sessions) = 1 THEN sessions[1].average_score
    ELSE LET m == mathMax(SubSeq(sessions, 1, Len(sessions) - 1))
             x == sessions[Len(sessions)].average_score
         IN IF x > m THEN x ELSE m

\* Math.floor(a / b)
mathRound_floor(a, b) == a \div b

\* Math.round(a / b) for a >= 0, b > 0: halves round up
mathRound(a, b) == (2 * a + b) \div (2 * b)

\* const sessions = reviewHistory.value
statsSessions == reviewHistory

historyStats ==
    IF Len(reviewHistory) = 0 THEN NullObj
    ELSE LET sessions == statsSessions
             totalSessions == Len(sessions)
             totalScore == reduceSum(sessions, "average_score")
             totalDuration == reduceSum(sessions, "duration")
             highestScore == mathMax(sessions)
         IN [totalSessions |-> totalSessions,
             averageScore |-> mathRound(totalScore, totalSessions),
             highestScore |-> highestScore,
             totalDuration |-> totalDuration]

\* the date-range test of filteredHistory
dateFilterKeeps(session) ==
    IF dateRange # NullRange /\ Len(dateRange) = 2
    THEN /\ ISODate(session.created_at) >= dateRange[1]
         /\ ISODate(session.created_at) <= dateRange[2]
    ELSE TRUE

\* the switch with the upper band starting above 90
scoreFilterKeeps_above(filter, score) ==
    CASE filter = "excellent" -> score > 90
      [] filter = "good" -> score >= 70 /\ score < 90
      [] filter = "poor" -> score < 70
      [] OTHER -> TRUE

\* the switch on scoreFilter of filteredHistory
scoreFilterKeeps(filter, score) ==
    CASE filter = "excellent" -> score >= 90
      [] filter = "good" -> score >= 70 /\ score < 90
      [] filter = "poor" -> score < 70
      [] OTHER -> TRUE

getScoreTagType(score) ==
    IF score >= 90 THEN "success"
    ELSE IF score >= 70 THEN "warning"
    ELSE "danger"

\* Array.prototype.filter
RECURSIVE filterSessions(_, _)
filterSessions(sessions, byDate) ==
    IF sessions = <<>> THEN <<>>
    ELSE LET rest == filterSessions(SubSeq(sessions, 1, Len(sessions) - 1),
                                    byDate)
             s == sessions[Len(sessions)]
             keep == IF byDate THEN dateFilterKeeps(s)
                     ELSE scoreFilterKeeps(scoreFilter, s.average_score)
         IN IF keep THEN Append(rest, s) ELSE rest

\* one step of the stable sort with the comparator
\* new Date(b.created_at) - new Date(a.created_at)
insertNewestFirst(sorted, x) ==
    LET k == Cardinality({i \in DOMAIN sorted :
                             sorted[i].created_at >= x.created_at})
    IN SubSeq(sorted, 1, k) \o <<x>> \o SubSeq(sorted, k + 1, Len(sorted))

RECURSIVE sortNewestFirst(_)
sortNewestFirst(sessions) ==
    IF sessions = <<>> THEN <<>>
    ELSE insertNewestFirst(
            sortNewestFirst(SubSeq(sessions, 1, Len(sessions) - 1)),
            sessions[Len(sessions)])

filteredHistory ==
    LET byDate == filterSessions(reviewHistory, TRUE)
        byScore == IF scoreFilter # ""
                   THEN filterSessions(byDate, FALSE)
                   ELSE byDate
    IN sortNewestFirst(byScore)

\* Math.ceil(filteredHistory.length / pageSize)
totalPages == (Len(filteredHistory) + pageSize - 1) \div pageSize

paginatedHistory ==
    LET start == (currentPage - 1) * pageSize
        end == start + pageSize
        last == IF end < Len(filteredHistory) THEN end
                ELSE Len(filteredHistory)
    IN SubSeq(filteredHistory, start + 1, last)

historyOthers == <<documents, currentQuestion, currentAnswer, reviewSession,
                   aiConfig, reviewVars, settingsVars, uploadVars, dbVars,
                   confirmBox, deleteVars, utilVars>>

\* the date picker emits a new range
handleDateRangeChange(range) ==
    /\ range # dateRange
    /\ dateRange' = range
    /\ currentPage' = 1
    /\ UNCHANGED <<historyOthers, knowledgeBases, reviewHistory, storeUi,
                   inflight, routeId, scoreFilter, tzOffset>>

\* the score select emits a new band ("" when it is cleared)
handleScoreFilterChange(filter) ==
    /\ filter # scoreFilter
    /\ scoreFilter' = filter
    /\ currentPage' = 1
    /\ UNCHANGED <<historyOthers, knowledgeBases, reviewHistory, storeUi,
                   inflight, routeId, dateRange, tzOffset>>

resetFilters ==
    /\ dateRange' = <<>>
    /\ scoreFilter' = ""
    /\ currentPage' = 1
    /\ UNCHANGED <<historyOthers, knowledgeBases, reviewHistory, storeUi,
                   inflight, routeId, tzOffset>>

\* the pagination is rendered only when totalPages > 1
handlePageChange(page) ==
    /\ totalPages > 1
    /\ page \in 1..totalPages
    /\ page # currentPage
    /\ currentPage' = page
    /\ UNCHANGED <<historyOthers, knowledgeBases, reviewHistory, storeUi,
                   inflight, routeId, dateRange, scoreFilter, tzOffset>>

\* loadData up to its first await
loadData(id) ==
    /\ IF Len(knowledgeBases) = 0
       THEN Dispatch("fetchKnowledgeBases", "knowledgeBases",
                     [view |-> "history"])
       ELSE Dispatch("fetchReviewHistory", "review",
                     [knowledgeBaseId |-> id])
    /\ UNCHANGED <<historyOthers, knowledgeBases, reviewHistory,
                   successMessage, dateRange, scoreFilter, currentPage,
                   tzOffset>>

\* the watcher of route.params.id
historyRouteChange(newId) ==
    /\ newId # routeId
    /\ routeId' = newId
    /\ loadData(newId)

\* fetchKnowledgeBases answered inside loadData: the commits and the finally
\* of the action, then loadData dispatches fetchReviewHistory
historyFetchKnowledgeBasesResolved(r, kbs) ==
    /\ r.kind = "fetchKnowledgeBases"
    /\ knowledgeBases' = kbs
    /\ successMessage' = "knowledge bases loaded"
    /\ loadingStates' =
          SET_MODULE_LOADING(
             SET_MODULE_LOADING(loadingStates, "knowledgeBases", FALSE),
             "review", TRUE)
    /\ errors' = CLEAR_MODULE_ERROR(errors, "review")
    /\ inflight' = (inflight \ {r}) \cup
          {[id |-> r.id, kind |-> "fetchReviewHistory",
            payload |-> [knowledgeBaseId |-> routeId]]}
    /\ UNCHANGED <<historyOthers, reviewHistory, routeId, historyVars>>

historyFetchKnowledgeBasesRejected(r, e) ==
    /\ r.kind = "fetchKnowledgeBases"
    /\ Rejected(r, "knowledgeBases", e, "fetch knowledge bases failed")
    /\ UNCHANGED <<historyOthers, knowledgeBases, reviewHistory,
                   successMessage, routeId, historyVars>>

\* fetchReviewHistory answered: SET_REVIEW_HISTORY
FetchReviewHistoryResolved(r, history) ==
    /\ r.kind = "fetchReviewHistory"
    /\ reviewHistory' = history
    /\ Settled(r, "review")
    /\ UNCHANGED <<historyOthers, knowledgeBases, errors, successMessage,
                   routeId, historyVars>>

FetchReviewHistoryRejected(r, e) ==
    /\ r.kind = "fetchReviewHistory"
    /\ Rejected(r, "review", e, "fetch review history failed")
    /\ UNCHANGED <<historyOthers, knowledgeBases, reviewHistory,
                   successMessage, routeId, historyVars>>

\* The history view at onMounted: loadData has dispatched its first request.
InitHistory ==
    /\ knowledgeBases = <<>>
    /\ documents = <<>>
    /\ currentQuestion = Null
    /\ currentAnswer = NullObj
    /\ reviewSession = NullObj
    /\ reviewHistory = <<>>
    /\ aiConfig = DefaultConfig
    /\ loadingStates = [NoLoading EXCEPT !["knowledgeBases"] = TRUE]
    /\ errors = NoErrors
    /\ successMessage = Null
    /\ userAnswer = ""
    /\ showAnswer = FALSE
    /\ currentAnswerResult = NullObj
    /\ currentQuestionIndex = 0
    /\ reviewCompleted = FALSE
    /\ reviewSummary = EmptyObj
    /\ configForm = DefaultConfig
    /\ testResult = NullObj
    /\ formErrors = {}
    /\ uploadingFiles = <<>>
    /\ uploadRequests = {}
    /\ routeId \in KnowledgeBaseIds
    /\ confirmBox = "closed"
    /\ db = EmptyDb
    /\ lastCascade = Null
    /\ DeleteViewIdle
    /\ UtilitiesIdle
    /\ dateRange = <<>>
    /\ scoreFilter = ""
    /\ currentPage = 1
    /\ tzOffset \in TimeZones
    /\ inflight = {[id |-> 1, kind |-> "fetchKnowledgeBases",
                    payload |-> [view |-> "history"]]}
    /\ runScores = [sum |-> 0, n |-> 0]
    /\ runSaves = 0

NextHistory ==
    \/ \E range \in DateRanges : handleDateRangeChange(range)
    \/ \E filter \in ScoreFilters : handleScoreFilterChange(filter)
    \/ resetFilters
    \/ \E page \in 1..2 : handlePageChange(page)
    \/ \E id \in KnowledgeBaseIds : historyRouteChange(id)
    \/ \E r \in inflight :
          historyFetchKnowledgeBasesResolved(r, <<"kb1", "kb2">>)
    \/ \E r \in inflight, e \in Failures :
          historyFetchKnowledgeBasesRejected(r, e)
    \/ \E r \in inflight, history \in ServerHistories :
          FetchReviewHistoryResolved(r, history)
    \/ \E r \in inflight, e \in Failures : FetchReviewHistoryRejected(r, e)

SpecHistory == InitHistory /\ [][NextHistory]_vars

-----------------------------------------------------------------------------
(* Delete with confirmation: KnowledgeBasesView.vue 208-280, the documents
   view unnamed/part_001 322-350, utils/confirmDialog.js *)

\* the rows that carry a delete button: knowledge bases and documents
DeletableItems ==
    {[type |-> "knowledgeBase", id |-> knowledgeBases[i]] :
        i \in DOMAIN knowledgeBases}
    \cup {[type |-> "document", id |-> documents[i].id] :
            i \in DOMAIN documents}

\* the ways ElMessageBox.confirm can reject: the cancel button, the close
\* button or Escape, and an error of the message box itself
DialogRejections == {"cancel", "close", "error"}

\* state.documents.filter(doc => doc.id !== id)
DELETE_DOCUMENT(docs, id) ==
    LET F[i \in 0..Len(docs)] ==
          IF i = 0 THEN <<>>
          ELSE IF docs[i].id # id THEN Append(F[i - 1], docs[i])
          ELSE F[i - 1]
    IN F[Len(docs)]

\* state.knowledgeBases.filter(kb => kb.id !== id)
DELETE_KNOWLEDGE_BASE(kbs, id) ==
    LET F[i \in 0..Len(kbs)] ==
          IF i = 0 THEN <<>>
          ELSE IF kbs[i] # id THEN Append(F[i - 1], kbs[i])
          ELSE F[i - 1]
    IN F[Len(kbs)]

deleteModule(type) ==
    IF type = "knowledgeBase" THEN "knowledgeBases" ELSE "documents"

deleteKind(type) ==
    IF type = "knowledgeBase" THEN "deleteKnowledgeBase" ELSE "deleteDocument"

deleteOthers == <<currentQuestion, currentAnswer, reviewSession,
                  reviewHistory, aiConfig, reviewVars, settingsVars,
                  uploadVars, quizVars, dbVars, historyVars, utilVars>>

\* showDeleteConfirmation up to its await: the message box opens
showDeleteConfirmation(item) ==
    /\ item \in DeletableItems
    /\ Cardinality(dialogs) < MaxDialogs
    /\ dialogs' = dialogs \cup {[item |-> item, state |-> "open"]}
    /\ UNCHANGED <<deleteOthers, knowledgeBases, documents, storeUi,
                   inflight, dialogResult>>

\* the confirm button: beforeClose shows the button as loading and closes
\* the box 300 ms later
DialogClickConfirm(d) ==
    /\ d \in dialogs
    /\ d.state = "open"
    /\ dialogs' = (dialogs \ {d}) \cup {[d EXCEPT !.state = "closing"]}
    /\ UNCHANGED <<deleteOthers, knowledgeBases, documents, storeUi,
                   inflight, dialogResult>>

\* handleDelete up to its await
handleDelete(item) ==
    /\ Dispatch(deleteKind(item.type), deleteModule(item.type),
                [item |-> item])
    /\ UNCHANGED <<knowledgeBases, documents, successMessage>>

\* if (confirmed) await this.handleDelete(...) with every result confirming
showDeleteConfirmationReturned_always(item, confirmed) ==
    handleDelete(item)

\* the rest of showDeleteConfirmation once showDeleteConfirmDialog returned
showDeleteConfirmationReturned(item, confirmed) ==
    IF confirmed THEN handleDelete(item)
    ELSE UNCHANGED <<knowledgeBases, documents, storeUi, inflight>>

\* ElMessageBox.confirm settled with `action`; showConfirmDialog returns
\* result === "confirm", or false from its catch
showConfirmDialogSettled(d, action) ==
    LET returned == (action = "confirm")
    IN /\ dialogs' = dialogs \ {d}
       /\ dialogResult' = [item |-> d.item, action |-> action,
                           returned |-> returned]
       /\ showDeleteConfirmationReturned(d.item, returned)
       /\ UNCHANGED deleteOthers

\* the timer of beforeClose fires: the promise resolves with "confirm"
DialogConfirmed(d) ==
    /\ d \in dialogs
    /\ d.state = "closing"
    /\ showConfirmDialogSettled(d, "confirm")

\* the promise rejects; while the box is closing only cancel and close
\* can still happen
DialogRejected(d, action) ==
    /\ d \in dialogs
    /\ d.state = "closing" => action # "error"
    /\ showConfirmDialogSettled(d, action)

\* axios.delete answered: DELETE_KNOWLEDGE_BASE or DELETE_DOCUMENT,
\* SET_SUCCESS_MESSAGE, finally
DeleteResolved(r) ==
    /\ r.kind \in {"deleteKnowledgeBase", "deleteDocument"}
    /\ IF r.payload.item.type = "knowledgeBase"
       THEN /\ knowledgeBases' =
                 DELETE_KNOWLEDGE_BASE(knowledgeBases, r.payload.item.id)
            /\ UNCHANGED documents
       ELSE /\ documents' = DELETE_DOCUMENT(documents, r.payload.item.id)
            /\ UNCHANGED knowledgeBases
    /\ successMessage' = "deleted"
    /\ Settled(r, deleteModule(r.payload.item.type))
    /\ UNCHANGED <<deleteOthers, errors, deleteVars>>

DeleteRejected(r, e) ==
    /\ r.kind \in {"deleteKnowledgeBase", "deleteDocument"}
    /\ Rejected(r, deleteModule(r.payload.item.type), e, "delete failed")
    /\ UNCHANGED <<deleteOthers, knowledgeBases, documents, successMessage,
                   deleteVars>>

\* The lists of knowledge bases and documents are loaded and shown.
InitDelete ==
    /\ knowledgeBases = <<"kb1", "kb2">>
    /\ documents = <<[id |-> "d1", knowledge_base_id |-> "kb1"]>>
    /\ currentQuestion = Null
    /\ currentAnswer = NullObj
    /\ reviewSession = NullObj
    /\ reviewHistory = <<>>
    /\ aiConfig = DefaultConfig
    /\ loadingStates = NoLoading
    /\ errors = NoErrors
    /\ successMessage = Null
    /\ userAnswer = ""
    /\ showAnswer = FALSE
    /\ currentAnswerResult = NullObj
    /\ currentQuestionIndex = 0
    /\ reviewCompleted = FALSE
    /\ reviewSummary = EmptyObj
    /\ configForm = DefaultConfig
    /\ testResult = NullObj
    /\ formErrors = {}
    /\ uploadingFiles = <<>>
    /\ uploadRequests = {}
    /\ routeId = KB
    /\ confirmBox = "closed"
    /\ db = EmptyDb
    /\ lastCascade = Null
    /\ HistoryViewIdle
    /\ DeleteViewIdle
    /\ UtilitiesIdle
    /\ inflight = {}
    /\ runScores = [sum |-> 0, n |-> 0]
    /\ runSaves = 0

NextDelete ==
    \/ \E item \in DeletableItems : showDeleteConfirmation(item)
    \/ \E d \in dialogs : DialogClickConfirm(d)
    \/ \E d \in dialogs : DialogConfirmed(d)
    \/ \E d \in dialogs, action \in DialogRejections :
          DialogRejected(d, action)
    \/ \E r \in inflight : DeleteResolved(r)
    \/ \E r \in inflight, e \in Failures : DeleteRejected(r, e)

SpecDelete == InitDelete /\ [][NextDelete]_vars

-----------------------------------------------------------------------------
(* The store actions on their own (store/index.js 225-552) *)

StoreActions ==
    {"fetchKnowledgeBases", "createKnowledgeBase", "updateKnowledgeBase",
     "deleteKnowledgeBase", "fetchDocuments", "uploadDocument",
     "deleteDocument", "generateQuestion", "submitAnswer", "fetchAIConfig",
     "saveAIConfig", "testAIConnection", "getRandomReviewQuestion",
     "fetchReviewHistory", "saveReviewSession"}

\* the module whose loading flag and error a store action sets
ModuleOf(kind) ==
    CASE kind \in {"fetchKnowledgeBases", "createKnowledgeBase",
                   "updateKnowledgeBase", "deleteKnowledgeBase"} ->
            "knowledgeBases"
      [] kind \in {"fetchDocuments", "uploadDocument", "deleteDocument"} ->
            "documents"
      [] kind \in {"generateQuestion", "submitAnswer"} -> "aiQuiz"
      [] kind \in {"fetchAIConfig", "saveAIConfig", "testAIConnection"} ->
            "aiConfig"
      [] kind \in {"getRandomReviewQuestion", "saveReviewSession",
                   "fetchReviewHistory"} -> "review"

\* the message after || in the catch block of an action
DefaultMessage(kind) ==
    CASE kind = "fetchKnowledgeBases" -> "fetching the knowledge bases failed"
      [] kind = "createKnowledgeBase" -> "creating the knowledge base failed"
      [] kind = "updateKnowledgeBase" -> "updating the knowledge base failed"
      [] kind = "deleteKnowledgeBase" -> "deleting the knowledge base failed"
      [] kind = "fetchDocuments" -> "fetching the documents failed"
      [] kind = "uploadDocument" -> "uploading the document failed"
      [] kind = "deleteDocument" -> "deleting the document failed"
      [] kind = "generateQuestion" -> "generating the question failed"
      [] kind = "submitAnswer" -> "submitting the answer failed"
      [] kind = "fetchAIConfig" -> "fetching the AI configuration failed"
      [] kind = "saveAIConfig" -> "saving the AI configuration failed"
      [] kind = "testAIConnection" -> "testing the AI connection failed"
      [] kind = "getRandomReviewQuestion" -> "fetching a review question failed"
      [] kind = "fetchReviewHistory" -> "fetching the review history failed"
      [] kind = "saveReviewSession" -> "saving the review session failed"

\* the id an action of the model is called with
TargetOf(kind) ==
    CASE ModuleOf(kind) = "knowledgeBases" -> "kb1"
      [] ModuleOf(kind) = "documents" -> "d1"
      [] ModuleOf(kind) = "aiQuiz" -> "q1"
      [] OTHER -> "kb1"

\* state.knowledgeBases.findIndex(...) and splice(index, 1, updated)
UPDATE_KNOWLEDGE_BASE(kbs, updated) ==
    [i \in DOMAIN kbs |-> IF kbs[i] = updated THEN updated ELSE kbs[i]]

\* the commits of the try block of an action, given response.data
StoreCommits(r) ==
    /\ knowledgeBases' =
          CASE r.kind = "fetchKnowledgeBases" -> <<"kb1">>
            [] r.kind = "createKnowledgeBase" -> Append(knowledgeBases, "kb2")
            [] r.kind = "updateKnowledgeBase" ->
                  UPDATE_KNOWLEDGE_BASE(knowledgeBases, r.payload.id)
            [] r.kind = "deleteKnowledgeBase" ->
                  DELETE_KNOWLEDGE_BASE(knowledgeBases, r.payload.id)
            [] OTHER -> knowledgeBases
    /\ documents' =
          CASE r.kind = "fetchDocuments" ->
                  <<[id |-> "d1", knowledge_base_id |-> "kb1"]>>
            [] r.kind = "uploadDocument" ->
                  Append(documents, [id |-> "d2", knowledge_base_id |-> "kb1"])
            [] r.kind = "deleteDocument" ->
                  DELETE_DOCUMENT(documents, r.payload.id)
            [] OTHER -> documents
    /\ currentQuestion' =
          CASE r.kind = "generateQuestion" -> "q1"
            [] r.kind = "getRandomReviewQuestion" -> "q2"
            [] OTHER -> currentQuestion
    /\ currentAnswer' =
          IF r.kind = "submitAnswer"
          THEN [question_id |-> r.payload.id, user_answer |-> "a",
                score |-> 60]
          ELSE currentAnswer
    /\ reviewSession' =
          IF r.kind = "saveReviewSession"
          THEN [id |-> "s1", questions_count |-> 1, average_score |-> 60]
          ELSE reviewSession
    /\ reviewHistory' =
          IF r.kind = "fetchReviewHistory" THEN SubSeq(ServerRows, 1, 1)
          ELSE reviewHistory
    /\ aiConfig' =
          IF r.kind \in {"fetchAIConfig", "saveAIConfig"}
          THEN SET_AI_CONFIG(aiConfig, ConfiguredLocal)
          ELSE aiConfig
    /\ successMessage' =
          IF r.kind \in {"fetchDocuments", "fetchAIConfig",
                         "getRandomReviewQuestion", "fetchReviewHistory"}
          THEN successMessage
          ELSE "success"

storeOthers == <<reviewVars, settingsVars, uploadVars, quizVars, dbVars,
                 historyVars, deleteVars, cacheVars, apiVars, moreVars>>

\* a caller dispatches an action: its commits up to the await
StoreDispatch(kind) ==
    /\ calls < MaxCalls
    /\ calls' = calls + 1
    /\ Dispatch(kind, ModuleOf(kind), [id |-> TargetOf(kind)])
    /\ UNCHANGED <<storeOthers, storeData, successMessage, actionResult>>

\* the HTTP request is answered: try block, finally, return
StoreActionSucceeded(r) ==
    /\ StoreCommits(r)
    /\ Settled(r, ModuleOf(r.kind))
    /\ actionResult' = [request |-> r, http |-> "answered", threw |-> FALSE]
    /\ UNCHANGED <<storeOthers, errors, calls>>

\* the catch block without its throw
StoreActionFailed_swallows(r, e) ==
    /\ Rejected(r, ModuleOf(r.kind), e, DefaultMessage(r.kind))
    /\ actionResult' = [request |-> r, http |-> "failed", threw |-> FALSE]
    /\ UNCHANGED <<storeOthers, storeData, successMessage, calls>>

\* the HTTP request fails: catch block, finally, and the error is thrown on
StoreActionFailed(r, e) ==
    /\ Rejected(r, ModuleOf(r.kind), e, DefaultMessage(r.kind))
    /\ actionResult' = [request |-> r, http |-> "failed", threw |-> TRUE]
    /\ UNCHANGED <<storeOthers, storeData, successMessage, calls>>

\* The store as createStore leaves it.
InitStore ==
    /\ OtherViewsIdle
    /\ knowledgeBases = <<>>
    /\ documents = <<>>
    /\ currentQuestion = Null
    /\ currentAnswer = NullObj
    /\ reviewSession = NullObj
    /\ reviewHistory = <<>>
    /\ aiConfig = DefaultConfig
    /\ loadingStates = NoLoading
    /\ errors = NoErrors
    /\ successMessage = Null
    /\ userAnswer = ""
    /\ showAnswer = FALSE
    /\ currentAnswerResult = NullObj
    /\ currentQuestionIndex = 0
    /\ reviewCompleted = FALSE
    /\ reviewSummary = EmptyObj
    /\ configForm = DefaultConfig
    /\ testResult = NullObj
    /\ formErrors = {}
    /\ uploadingFiles = <<>>
    /\ uploadRequests = {}
    /\ inflight = {}
    /\ runScores = [sum |-> 0, n |-> 0]
    /\ runSaves = 0

NextStore ==
    \/ \E kind \in StoreActions : StoreDispatch(kind)
    \/ \E r \in inflight : StoreActionSucceeded(r)
    \/ \E r \in inflight, e \in Failures : StoreActionFailed(r, e)

SpecStore == InitStore /\ [][NextStore]_vars

-----------------------------------------------------------------------------
(* APICache and its cleanup interval (unnamed/part_004 35-82) *)

\* the default time to live, 5 minutes, in the time unit of the model
defaultTTL == 2

\* the ttl argument of set when it is given
TTLs == {0, 1}

\* the cached values of the model; "" is a falsy JavaScript value
CacheData == {"rows", ""}

\* this.cache.set(key, {data, expiresAt}) with expiresAt = Date.now() + ttl
setEntry(map, key, data, ttl) ==
    [map EXCEPT ![key] = [data |-> data,
                          expiresAt |-> now + ttl]]

\* Date.now() >= entry.expiresAt
isExpired_atExpiry(entry) == now >= entry.expiresAt

\* Date.now() > entry.expiresAt
isExpired(entry) == now > entry.expiresAt

\* what get(key) returns
getValue(key) ==
    IF cache[key] = NullObj THEN Null
    ELSE IF isExpired(cache[key]) THEN Null
    ELSE cache[key].data

\* the Map after get(key): an expired entry is deleted
afterGet(key) ==
    IF cache[key] # NullObj /\ isExpired(cache[key])
    THEN [cache EXCEPT ![key] = NullObj]
    ELSE cache

cacheOthers == <<storeData, storeUi, reviewVars, settingsVars, uploadVars,
                 quizVars, dbVars, historyVars, deleteVars, actionResult,
                 moreVars, inflight>>

cacheSet(key, data, ttl) ==
    /\ cache' = setEntry(cache, key, data, ttl)
    /\ lastSet' = setEntry(lastSet, key, data, ttl)
    /\ UNCHANGED <<cacheOthers, apiVars, now, getResult, calls>>

cacheGet(key) ==
    /\ calls < MaxCalls
    /\ calls' = calls + 1
    /\ getResult' = [key |-> key, value |-> getValue(key)]
    /\ cache' = afterGet(key)
    /\ UNCHANGED <<cacheOthers, apiVars, now, lastSet>>

cacheClear ==
    /\ cache' = EmptyCache
    /\ lastSet' = EmptyCache
    /\ UNCHANGED <<cacheOthers, apiVars, now, getResult, calls>>

\* cleanup, called by hand or by the interval timer
cacheCleanup ==
    /\ cache' = [k \in CacheKeys |->
                    IF cache[k] # NullObj /\ isExpired(cache[k])
                    THEN NullObj ELSE cache[k]]
    /\ UNCHANGED <<cacheOthers, apiVars, now, lastSet, getResult, calls>>

\* Date.now() moves on
Tick ==
    /\ now < MaxTime
    /\ now' = now + 1
    /\ UNCHANGED <<cacheOthers, apiVars, cache, lastSet, getResult, calls>>

\* The module has been loaded: new APICache().
InitCache ==
    /\ OtherViewsIdle
    /\ knowledgeBases = <<>>
    /\ documents = <<>>
    /\ currentQuestion = Null
    /\ currentAnswer = NullObj
    /\ reviewSession = NullObj
    /\ reviewHistory = <<>>
    /\ aiConfig = DefaultConfig
    /\ loadingStates = NoLoading
    /\ errors = NoErrors
    /\ successMessage = Null
    /\ userAnswer = ""
    /\ showAnswer = FALSE
    /\ currentAnswerResult = NullObj
    /\ currentQuestionIndex = 0
    /\ reviewCompleted = FALSE
    /\ reviewSummary = EmptyObj
    /\ configForm = DefaultConfig
    /\ testResult = NullObj
    /\ formErrors = {}
    /\ uploadingFiles = <<>>
    /\ uploadRequests = {}
    /\ inflight = {}
    /\ runScores = [sum |-> 0, n |-> 0]
    /\ runSaves = 0

NextCache ==
    \/ \E key \in CacheKeys, data \in CacheData,
          ttl \in TTLs \cup {defaultTTL} : cacheSet(key, data, ttl)
    \/ \E key \in CacheKeys : cacheGet(key)
    \/ cacheClear
    \/ cacheCleanup
    \/ Tick

SpecCache == InitCache /\ [][NextCache]_vars

-----------------------------------------------------------------------------
(* useOptimizedAPI (unnamed/part_004 114-178), one instance with the default
   ttl and loadingKey *)

cacheKey == "k1"

\* what apiFunction may resolve with
ApiResults == CacheData

\* the truthiness of a cached value in if (cachedData)
Truthy(value) == value # Null /\ value # ""

\* execute after its cache check missed: setLoading(true), error = null,
\* apiFunction is invoked
executeMiss(via) ==
    /\ apiLoading' = TRUE
    /\ apiError' = Null
    /\ apiPending' = apiPending \cup {calls + 1}
    /\ execReturn' = [via |-> via, hit |-> FALSE, value |-> Null]
    /\ UNCHANGED apiData

apiExecute ==
    /\ calls < MaxCalls
    /\ calls' = calls + 1
    /\ IF useCache
       THEN /\ getResult' = [key |-> cacheKey, value |-> getValue(cacheKey)]
            /\ cache' = afterGet(cacheKey)
            /\ IF Truthy(getValue(cacheKey))
               THEN /\ apiData' = getValue(cacheKey)
                    /\ execReturn' = [via |-> "execute", hit |-> TRUE,
                                      value |-> getValue(cacheKey)]
                    /\ UNCHANGED <<apiError, apiLoading, apiPending>>
               ELSE executeMiss("execute")
       ELSE /\ executeMiss("execute")
            /\ UNCHANGED <<cache, getResult>>
    /\ UNCHANGED <<cacheOthers, now, lastSet, useCache>>

\* refresh: apiCache.cache.delete(cacheKey), then execute, whose cache check
\* finds nothing
apiRefresh ==
    /\ calls < MaxCalls
    /\ calls' = calls + 1
    /\ IF useCache
       THEN /\ cache' = [cache EXCEPT ![cacheKey] = NullObj]
            /\ lastSet' = [lastSet EXCEPT ![cacheKey] = NullObj]
            /\ getResult' = [key |-> cacheKey, value |-> Null]
       ELSE UNCHANGED <<cache, lastSet, getResult>>
    /\ executeMiss("refresh")
    /\ UNCHANGED <<cacheOthers, now, useCache>>

\* apiFunction resolved: data = result, the result is cached, finally
apiFunctionResolved(call, result) ==
    /\ call \in apiPending
    /\ apiPending' = apiPending \ {call}
    /\ apiData' = result
    /\ IF useCache
       THEN /\ cache' = setEntry(cache, cacheKey, result, defaultTTL)
            /\ lastSet' = setEntry(lastSet, cacheKey, result, defaultTTL)
       ELSE UNCHANGED <<cache, lastSet>>
    /\ apiLoading' = FALSE
    /\ UNCHANGED <<cacheOthers, now, getResult, calls, useCache, apiError,
                   execReturn>>

\* apiFunction rejected: error = err, finally, the error is thrown on
apiFunctionRejected(call) ==
    /\ call \in apiPending
    /\ apiPending' = apiPending \ {call}
    /\ apiError' = "error"
    /\ apiLoading' = FALSE
    /\ UNCHANGED <<cacheOthers, cacheVars, calls, useCache, apiData,
                   execReturn>>

\* useOptimizedAPI has been called with or without useCache.
InitApi ==
    /\ knowledgeBases = <<>>
    /\ documents = <<>>
    /\ currentQuestion = Null
    /\ currentAnswer = NullObj
    /\ reviewSession = NullObj
    /\ reviewHistory = <<>>
    /\ aiConfig = DefaultConfig
    /\ loadingStates = NoLoading
    /\ errors = NoErrors
    /\ successMessage = Null
    /\ userAnswer = ""
    /\ showAnswer = FALSE
    /\ currentAnswerResult = NullObj
    /\ currentQuestionIndex = 0
    /\ reviewCompleted = FALSE
    /\ reviewSummary = EmptyObj
    /\ configForm = DefaultConfig
    /\ testResult = NullObj
    /\ formErrors = {}
    /\ uploadingFiles = <<>>
    /\ uploadRequests = {}
    /\ routeId = KB
    /\ confirmBox = "closed"
    /\ db = EmptyDb
    /\ lastCascade = Null
    /\ HistoryViewIdle
    /\ dialogs = {}
    /\ dialogResult = NullObj
    /\ actionResult = NullObj
    /\ calls = 0
    /\ cache = EmptyCache
    /\ now = 0
    /\ lastSet = EmptyCache
    /\ getResult = NullObj
    /\ useCache \in BOOLEAN
    /\ apiData = Null
    /\ apiError = Null
    /\ apiLoading = FALSE
    /\ apiPending = {}
    /\ execReturn = NullObj
    /\ MoreIdle
    /\ NavIdle
    /\ inflight = {}
    /\ runScores = [sum |-> 0, n |-> 0]
    /\ runSaves = 0

NextApi ==
    \/ apiExecute
    \/ apiRefresh
    \/ \E call \in apiPending, result \in ApiResults :
          apiFunctionResolved(call, result)
    \/ \E call \in apiPending : apiFunctionRejected(call)
    \/ cacheCleanup
    \/ Tick

SpecApi == InitApi /\ [][NextApi]_vars

-----------------------------------------------------------------------------
(* APIBatcher (unnamed/part_004 321-376), an instance created with
   batchSize 2 *)

batchSize == 2

\* what a request function does when it is invoked: it returns a promise
\* that fulfils or rejects, or it throws before returning one
RequestBehaviours == {"fulfils", "rejects", "throws"}

\* { request, resolve, reject } as pushed by add
NewRequest(behaviour) ==
    [behaviour |-> behaviour, invoked |-> 0, status |-> "pending", of |-> 0]

\* setTimeout(() => this.flush(), this.delay)
batcherNewTimer == batcherTimerCount + 1

\* the synchronous part of flush, run on the queue q with the requests reqs
\* and the pending timers
flush(q, reqs, timers) ==
    IF Len(q) = 0
    THEN /\ batcherQueue' = q
         /\ batcherRequests' = reqs
         /\ batcherTimers' = timers
         /\ UNCHANGED <<batcherTimeoutId, batcherBatches, batcherTimerCount>>
    ELSE LET n == IF Len(q) < batchSize THEN Len(q) ELSE batchSize
             batch == SubSeq(q, 1, n)
             rest == SubSeq(q, n + 1, Len(q))
             cleared == timers \ {batcherTimeoutId}
             throwers == {i \in 1..n : reqs[batch[i]].behaviour = "throws"}
         IN /\ batcherQueue' = rest
            /\ IF throwers = {}
               THEN \* every request() returned a promise: await allSettled
                    /\ batcherRequests' =
                          [id \in DOMAIN reqs |->
                             IF \E i \in 1..n : batch[i] = id
                             THEN [reqs[id] EXCEPT !.invoked = @ + 1]
                             ELSE reqs[id]]
                    /\ batcherBatches' = batcherBatches \cup {batch}
                    /\ batcherTimeoutId' = 0
                    /\ batcherTimers' = cleared
                    /\ UNCHANGED batcherTimerCount
               ELSE \* batch.map stops at the first request() that throws;
                    \* catch rejects every promise of the batch with its
                    \* error; then the remaining items get a timer
                    LET first == CHOOSE i \in throwers :
                                    \A j \in throwers : i <= j
                    IN /\ batcherRequests' =
                             [id \in DOMAIN reqs |->
                                IF \E i \in 1..n : batch[i] = id
                                THEN [reqs[id] EXCEPT
                                        !.invoked =
                                           IF \E i \in 1..first : batch[i] = id
                                           THEN @ + 1 ELSE @,
                                        !.status = "rejected",
                                        !.of = batch[first]]
                                ELSE reqs[id]]
                       /\ UNCHANGED batcherBatches
                       /\ IF Len(rest) > 0
                          THEN /\ batcherTimeoutId' = batcherNewTimer
                               /\ batcherTimers' =
                                     cleared \cup {batcherNewTimer}
                               /\ batcherTimerCount' = batcherNewTimer
                          ELSE /\ batcherTimeoutId' = 0
                               /\ batcherTimers' = cleared
                               /\ UNCHANGED batcherTimerCount

batcherOthers == <<storeData, storeUi, reviewVars, settingsVars, uploadVars,
                   quizVars, dbVars, historyVars, deleteVars, storeCallVars,
                   cacheVars, apiVars, debounceVars, throttleVars, navVars,
                   inflight>>

\* add(request)
batcherAdd(behaviour) ==
    /\ Len(batcherRequests) < MaxRequests
    /\ LET reqs == Append(batcherRequests, NewRequest(behaviour))
           q == Append(batcherQueue, Len(reqs))
       IN IF Len(q) >= batchSize
          THEN flush(q, reqs, batcherTimers)
          ELSE /\ batcherQueue' = q
               /\ batcherRequests' = reqs
               /\ IF batcherTimeoutId = 0
                  THEN /\ batcherTimeoutId' = batcherNewTimer
                       /\ batcherTimers' =
                             batcherTimers \cup {batcherNewTimer}
                       /\ batcherTimerCount' = batcherNewTimer
                  ELSE UNCHANGED <<batcherTimeoutId, batcherTimers,
                                   batcherTimerCount>>
               /\ UNCHANGED batcherBatches
    /\ UNCHANGED batcherOthers

\* a timer set by add or by flush fires
batcherTimerFires(timer) ==
    /\ timer \in batcherTimers
    /\ flush(batcherQueue, batcherRequests, batcherTimers \ {timer})
    /\ UNCHANGED batcherOthers

\* flush() called from outside while something is queued
batcherFlush ==
    /\ Len(batcherQueue) > 0
    /\ flush(batcherQueue, batcherRequests, batcherTimers)
    /\ UNCHANGED batcherOthers

\* Promise.allSettled of a batch resolved: each promise is settled from its
\* own result, then the remaining items get a timer
batcherBatchSettled(batch) ==
    /\ batch \in batcherBatches
    /\ batcherBatches' = batcherBatches \ {batch}
    /\ batcherRequests' =
          [id \in DOMAIN batcherRequests |->
             IF \E i \in DOMAIN batch : batch[i] = id
             THEN [batcherRequests[id] EXCEPT
                     !.status = IF @ # "pending" THEN @
                                ELSE IF batcherRequests[id].behaviour =
                                           "fulfils"
                                THEN "fulfilled" ELSE "rejected",
                     !.of = IF batcherRequests[id].status # "pending"
                            THEN @ ELSE id]
             ELSE batcherRequests[id]]
    /\ IF Len(batcherQueue) > 0
       THEN /\ batcherTimeoutId' = batcherNewTimer
            /\ batcherTimers' = batcherTimers \cup {batcherNewTimer}
            /\ batcherTimerCount' = batcherNewTimer
       ELSE UNCHANGED <<batcherTimeoutId, batcherTimers, batcherTimerCount>>
    /\ UNCHANGED <<batcherOthers, batcherQueue>>

NextBatcher ==
    \/ \E behaviour \in RequestBehaviours : batcherAdd(behaviour)
    \/ \E timer \in batcherTimers : batcherTimerFires(timer)
    \/ batcherFlush
    \/ \E batch \in batcherBatches : batcherBatchSettled(batch)

\* new APIBatcher(2): nothing queued, no timer
SpecBatcher == InitStore /\ [][NextBatcher]_vars

-----------------------------------------------------------------------------
(* debounce and throttle (unnamed/part_004 10-33): one debounced function
   created with delay 2 and one throttled function created with limit 2.
   A timer runs at the instant it is due, before time moves on and before
   any other call made at that instant. *)

\* calls of the debounced and of the throttled function
MaxTimedCalls == 3

debounceDelay == 2

throttleLimit == 2

\* the arguments a call may carry
CallArgs == {"x", "y"}

\* what func does when it is invoked
FuncOutcomes == {"returns", "throws"}

timingOthers == <<storeData, storeUi, reviewVars, settingsVars, uploadVars,
                  quizVars, dbVars, historyVars, deleteVars, storeCallVars,
                  cache, lastSet, getResult, apiVars, batcherVars, navVars,
                  inflight>>

\* a timer set by setTimeout is due
TimerDue(timer) == timer # NullObj /\ now >= timer.due

\* Date.now() moves on unless the timer is due
TickUnlessDue(timer) ==
    /\ ~TimerDue(timer)
    /\ Tick

\* the debounced function with the timer keeping the arguments it was set
\* with first
debouncedCall_firstArgs(args) ==
    /\ Len(debounceCalls) < MaxTimedCalls
    /\ ~TimerDue(debounceTimer)
    /\ debounceCalls' = Append(debounceCalls, [at |-> now, args |-> args])
    /\ debounceTimer' =
          [due |-> now + debounceDelay,
           args |-> IF debounceTimer = NullObj THEN args
                    ELSE debounceTimer.args]
    /\ UNCHANGED <<timingOthers, now, debounceInvoked, throttleVars>>

\* the debounced function: clearTimeout(timeoutId), then setTimeout
debouncedCall(args) ==
    /\ Len(debounceCalls) < MaxTimedCalls
    /\ ~TimerDue(debounceTimer)
    /\ debounceCalls' = Append(debounceCalls, [at |-> now, args |-> args])
    /\ debounceTimer' = [due |-> now + debounceDelay, args |-> args]
    /\ UNCHANGED <<timingOthers, now, debounceInvoked, throttleVars>>

\* the timer of the debounced function runs: func.apply(this, args)
debounceTimerFires ==
    /\ TimerDue(debounceTimer)
    /\ debounceInvoked' =
          Append(debounceInvoked, [at |-> now, args |-> debounceTimer.args])
    /\ debounceTimer' = NullObj
    /\ UNCHANGED <<timingOthers, now, debounceCalls, throttleVars>>

NextDebounce ==
    \/ \E args \in CallArgs : debouncedCall(args)
    \/ debounceTimerFires
    \/ TickUnlessDue(debounceTimer)

SpecDebounce == InitStore /\ [][NextDebounce]_vars

\* the throttled function: func.apply first, then inThrottle = true and the
\* timer; a throw of func leaves the function before both
throttledCall(outcome) ==
    /\ Len(throttleCalls) < MaxTimedCalls
    /\ ~TimerDue(throttleTimer)
    /\ throttleCalls' = Append(throttleCalls, [at |-> now])
    /\ IF ~inThrottle
       THEN /\ throttleInvoked' =
                 Append(throttleInvoked,
                        [at |-> now, call |-> Len(throttleCalls) + 1])
            /\ IF outcome = "throws"
               THEN UNCHANGED <<inThrottle, throttleTimer>>
               ELSE /\ inThrottle' = TRUE
                    /\ throttleTimer' = [due |-> now + throttleLimit]
       ELSE UNCHANGED <<inThrottle, throttleTimer, throttleInvoked>>
    /\ UNCHANGED <<timingOthers, now, debounceVars>>

\* setTimeout(() => (inThrottle = false), limit) runs
throttleTimerFires ==
    /\ TimerDue(throttleTimer)
    /\ inThrottle' = FALSE
    /\ throttleTimer' = NullObj
    /\ UNCHANGED <<timingOthers, now, debounceVars, throttleCalls,
                   throttleInvoked>>

NextThrottle ==
    \/ \E outcome \in FuncOutcomes : throttledCall(outcome)
    \/ throttleTimerFires
    \/ TickUnlessDue(throttleTimer)

SpecThrottle == InitStore /\ [][NextThrottle]_vars

-----------------------------------------------------------------------------
(* DocumentsView: loading on creation and on every change of
   $route.params.id (unnamed/part_001 224-248 and 397-404) *)

docsNavOthers == <<currentQuestion, currentAnswer, reviewSession,
                   reviewHistory, aiConfig, reviewVars, settingsVars,
                   uploadVars, confirmBox, dbVars, historyVars, deleteVars,
                   utilVars>>

\* what GET /knowledge-bases can answer
KnowledgeBaseLists == {<<>>, <<"kb1", "kb2">>}

\* the fetchDocuments request of loadData: this.knowledgeBaseId is read when
\* the dispatch is made
documentsRequest(id, knowledgeBaseId) ==
    [id |-> id, kind |-> "fetchDocuments",
     payload |-> [knowledgeBaseId |-> knowledgeBaseId, from |-> "documents"]]

\* the watcher of $route.params.id: loadData() for the new id
documentsRouteChange(k) ==
    /\ k # routeId
    /\ Cardinality(inflight) < MaxInflight
    /\ routeId' = k
    /\ IF Len(knowledgeBases) = 0
       THEN /\ loadingStates' =
                 SET_MODULE_LOADING(loadingStates, "knowledgeBases", TRUE)
            /\ errors' = CLEAR_MODULE_ERROR(errors, "knowledgeBases")
            /\ inflight' = inflight \cup
                 {[id |-> FreeId, kind |-> "fetchKnowledgeBases",
                   payload |-> [view |-> "documents"]]}
       ELSE /\ loadingStates' =
                 SET_MODULE_LOADING(loadingStates, "documents", TRUE)
            /\ errors' = CLEAR_MODULE_ERROR(errors, "documents")
            /\ inflight' = inflight \cup {documentsRequest(FreeId, k)}
    /\ UNCHANGED <<docsNavOthers, knowledgeBases, documents, successMessage>>

\* fetchKnowledgeBases answered: loadData goes on to fetchDocuments for the
\* knowledge base of the route as it is now
documentsFetchKnowledgeBasesResolved(r, kbs) ==
    /\ r.kind = "fetchKnowledgeBases"
    /\ knowledgeBases' = kbs
    /\ successMessage' = "knowledge bases loaded"
    /\ loadingStates' =
          SET_MODULE_LOADING(
             SET_MODULE_LOADING(loadingStates, "knowledgeBases", FALSE),
             "documents", TRUE)
    /\ errors' = CLEAR_MODULE_ERROR(errors, "documents")
    /\ inflight' = (inflight \ {r}) \cup {documentsRequest(r.id, routeId)}
    /\ UNCHANGED <<docsNavOthers, documents, routeId>>

\* fetchKnowledgeBases failed: loadData's catch, no fetchDocuments
documentsFetchKnowledgeBasesRejected(r, e) ==
    /\ r.kind = "fetchKnowledgeBases"
    /\ Rejected(r, "knowledgeBases", e, "fetch knowledge bases failed")
    /\ UNCHANGED <<docsNavOthers, knowledgeBases, documents, successMessage,
                   routeId>>

\* fetchDocuments answered: SET_DOCUMENTS with the rows of the knowledge
\* base that was asked for
documentsFetchDocumentsResolved(r, docs) ==
    /\ r.kind = "fetchDocuments"
    /\ docs \in DocumentsOf(r.payload.knowledgeBaseId)
    /\ documents' = docs
    /\ Settled(r, "documents")
    /\ UNCHANGED <<docsNavOthers, knowledgeBases, errors, successMessage,
                   routeId>>

documentsFetchDocumentsRejected(r, e) ==
    /\ r.kind = "fetchDocuments"
    /\ Rejected(r, "documents", e, "fetch documents failed")
    /\ UNCHANGED <<docsNavOthers, knowledgeBases, documents, successMessage,
                   routeId>>

\* The documents view right after it is created: created() and the
\* immediate watcher have each called loadData, the store is empty and both
\* fetchKnowledgeBases requests are in flight.
InitDocumentsNav ==
    /\ routeId \in KnowledgeBaseIds
    /\ confirmBox = "closed"
    /\ db = EmptyDb
    /\ lastCascade = Null
    /\ DeleteViewIdle
    /\ UtilitiesIdle
    /\ HistoryViewIdle
    /\ knowledgeBases = <<>>
    /\ documents = <<>>
    /\ currentQuestion = Null
    /\ currentAnswer = NullObj
    /\ reviewSession = NullObj
    /\ reviewHistory = <<>>
    /\ aiConfig = DefaultConfig
    /\ loadingStates = [NoLoading EXCEPT !["knowledgeBases"] = TRUE]
    /\ errors = NoErrors
    /\ successMessage = Null
    /\ userAnswer = ""
    /\ showAnswer = FALSE
    /\ currentAnswerResult = NullObj
    /\ currentQuestionIndex = 0
    /\ reviewCompleted = FALSE
    /\ reviewSummary = EmptyObj
    /\ configForm = DefaultConfig
    /\ testResult = NullObj
    /\ formErrors = {}
    /\ uploadingFiles = <<>>
    /\ uploadRequests = {}
    /\ inflight = {[id |-> i, kind |-> "fetchKnowledgeBases",
                    payload |-> [view |-> "documents"]] : i \in 1..2}
    /\ runScores = [sum |-> 0, n |-> 0]
    /\ runSaves = 0

NextDocumentsNav ==
    \/ \E k \in KnowledgeBaseIds : documentsRouteChange(k)
    \/ \E r \in inflight, kbs \in KnowledgeBaseLists :
          documentsFetchKnowledgeBasesResolved(r, kbs)
    \/ \E r \in inflight, e \in Failures :
          documentsFetchKnowledgeBasesRejected(r, e)
    \/ \E r \in inflight, docs \in QuizDocumentLists :
          documentsFetchDocumentsResolved(r, docs)
    \/ \E r \in inflight, e \in Failures :
          documentsFetchDocumentsRejected(r, e)

SpecDocumentsNav == InitDocumentsNav /\ [][NextDocumentsNav]_vars

-----------------------------------------------------------------------------
(* The layout's watcher of route.params.id (unnamed/part_005 232-257).
   routeId is Null on a route without an id ("/", "/settings",
   "/knowledge-bases"); every route with an id is under /knowledge-bases/.
   A knowledge base is modelled by its id. *)

LayoutRoutes == KnowledgeBaseIds \cup {Null}

\* getKnowledgeBaseById: state.knowledgeBases.find(kb => kb.id === id), with
\* Null for undefined
getKnowledgeBaseById(kbs, id) ==
    IF \E i \in DOMAIN kbs : kbs[i] = id THEN id ELSE Null

layoutOthers == <<documents, currentQuestion, currentAnswer, reviewSession,
                  reviewHistory, aiConfig, reviewVars, settingsVars,
                  uploadVars, confirmBox, dbVars, historyVars, deleteVars,
                  storeCallVars, cacheVars, apiVars, batcherVars,
                  debounceVars, throttleVars, reviewStats, activeView>>

\* the route changes and the watcher runs up to its await
layoutRouteChange(newId) ==
    /\ newId # routeId
    /\ routeId' = newId
    /\ IF newId # Null
       THEN LET knowledgeBase == getKnowledgeBaseById(knowledgeBases, newId)
            IN IF knowledgeBase # Null
               THEN /\ currentKnowledgeBase' = knowledgeBase
                    /\ UNCHANGED <<loadingStates, errors, inflight>>
               ELSE /\ Dispatch("fetchKnowledgeBases", "knowledgeBases",
                                [view |-> "layout", newId |-> newId])
                    /\ UNCHANGED currentKnowledgeBase
       ELSE /\ currentKnowledgeBase' = Null
            /\ UNCHANGED <<loadingStates, errors, inflight>>
    /\ UNCHANGED <<layoutOthers, knowledgeBases, successMessage>>

\* fetchKnowledgeBases answered: the watcher looks newId up again
layoutFetchKnowledgeBasesResolved(r, kbs) ==
    /\ r.kind = "fetchKnowledgeBases"
    /\ knowledgeBases' = kbs
    /\ successMessage' = "knowledge bases loaded"
    /\ Settled(r, "knowledgeBases")
    /\ LET kb == getKnowledgeBaseById(kbs, r.payload.newId)
       IN IF kb # Null
          THEN currentKnowledgeBase' = kb
          ELSE UNCHANGED currentKnowledgeBase
    /\ UNCHANGED <<layoutOthers, errors, routeId>>

\* fetchKnowledgeBases failed: the watcher's catch
layoutFetchKnowledgeBasesRejected(r, e) ==
    /\ r.kind = "fetchKnowledgeBases"
    /\ Rejected(r, "knowledgeBases", e, "fetch knowledge bases failed")
    /\ UNCHANGED <<layoutOthers, knowledgeBases, successMessage, routeId,
                   currentKnowledgeBase>>

\* The layout right after setup: the store is empty and the immediate
\* watcher has run for the first route.
InitLayout ==
    /\ routeId \in LayoutRoutes
    /\ confirmBox = "closed"
    /\ db = EmptyDb
    /\ lastCascade = Null
    /\ DeleteViewIdle
    /\ UtilitiesIdle
    /\ HistoryViewIdle
    /\ knowledgeBases = <<>>
    /\ documents = <<>>
    /\ currentQuestion = Null
    /\ currentAnswer = NullObj
    /\ reviewSession = NullObj
    /\ reviewHistory = <<>>
    /\ aiConfig = DefaultConfig
    /\ loadingStates =
          [NoLoading EXCEPT !["knowledgeBases"] = (routeId # Null)]
    /\ errors = NoErrors
    /\ successMessage = Null
    /\ userAnswer = ""
    /\ showAnswer = FALSE
    /\ currentAnswerResult = NullObj
    /\ currentQuestionIndex = 0
    /\ reviewCompleted = FALSE
    /\ reviewSummary = EmptyObj
    /\ configForm = DefaultConfig
    /\ testResult = NullObj
    /\ formErrors = {}
    /\ uploadingFiles = <<>>
    /\ uploadRequests = {}
    /\ inflight = IF routeId = Null THEN {}
                  ELSE {[id |-> 1, kind |-> "fetchKnowledgeBases",
                         payload |-> [view |-> "layout", newId |-> routeId]]}
    /\ runScores = [sum |-> 0, n |-> 0]
    /\ runSaves = 0

NextLayout ==
    \/ \E newId \in LayoutRoutes : layoutRouteChange(newId)
    \/ \E r \in inflight, kbs \in KnowledgeBaseLists :
          layoutFetchKnowledgeBasesResolved(r, kbs)
    \/ \E r \in inflight, e \in Failures :
          layoutFetchKnowledgeBasesRejected(r, e)

SpecLayout == InitLayout /\ [][NextLayout]_vars

-----------------------------------------------------------------------------
(* ReviewView opened from the quiz view: onMounted, the watcher of
   route.params.id and loadReviewStats (unnamed/part_003 437-495), with the
   quiz view's generateQuestion (store/index.js 410-427) before it. The
   store is shared by the views and outlives them. *)

\* the questions POST /knowledge-bases/:id/generate-question creates
GeneratedQuestions == {"g1"}

\* what GET /knowledge-bases/:id/history can answer to the review view:
\* kb1 has been reviewed, kb2 has not
ReviewHistoriesOf(k) ==
    IF k = "kb1" THEN {SubSeq(ServerRows, 1, n) : n \in 1..(MaxHistory - 1)}
    ELSE {<<>>}

ReviewHistories == UNION {ReviewHistoriesOf(k) : k \in KnowledgeBaseIds}

\* the object loadReviewStats assigns for a history that is not empty
reviewStatsOf(history) ==
    [totalSessions |-> Len(history),
     averageScore |-> mathRound(reduceSum(history, "average_score"),
                                Len(history)),
     lastReviewDate |-> <<formatDate(history[1].created_at)>>]

reviewNavOthers == <<knowledgeBases, currentAnswer, reviewSession,
                     currentQuestionIndex, reviewSummary, runScores,
                     runSaves, settingsVars, uploadVars, confirmBox, dbVars,
                     historyVars, deleteVars, calls, cacheVars, apiVars,
                     batcherVars, debounceVars, throttleVars,
                     currentKnowledgeBase>>

\* the "generate question" button of the quiz view
navGenerateClick ==
    /\ activeView = "quiz"
    /\ GenerateClick

\* router.push to the review route of the same knowledge base: setup creates
\* the refs, onMounted dispatches fetchDocuments
openReviewView ==
    /\ activeView = "quiz"
    /\ activeView' = "review"
    /\ userAnswer' = ""
    /\ showAnswer' = FALSE
    /\ currentAnswerResult' = NullObj
    /\ reviewCompleted' = FALSE
    /\ reviewStats' = DefaultStats
    /\ Dispatch("fetchDocuments", "documents",
                [knowledgeBaseId |-> routeId, from |-> "mounted"])
    /\ UNCHANGED <<reviewNavOthers, documents, currentQuestion,
                   reviewHistory, aiConfig, successMessage, routeId,
                   actionResult>>

\* the "start review" button of the review view
navStartReviewSession ==
    /\ activeView = "review"
    /\ StartReviewSession

\* route.params.id changes while the review view stays mounted: the watcher
\* dispatches fetchDocuments(newId)
reviewRouteChange(newId) ==
    /\ activeView = "review"
    /\ newId # routeId
    /\ routeId' = newId
    /\ Dispatch("fetchDocuments", "documents",
                [knowledgeBaseId |-> newId, from |-> "watch"])
    /\ UNCHANGED <<reviewNavOthers, documents, currentQuestion,
                   reviewHistory, aiConfig, successMessage, userAnswer,
                   showAnswer, currentAnswerResult, reviewCompleted,
                   reviewStats, activeView, actionResult>>

\* the request of loadReviewStats: route.params.id is read when it runs
reviewHistoryRequest(r) ==
    [id |-> r.id, kind |-> "fetchReviewHistory",
     payload |-> [knowledgeBaseId |-> routeId, from |-> r.payload.from]]

\* fetchDocuments answered: onMounted goes on to fetchAIConfig, the watcher
\* to loadReviewStats
reviewFetchDocumentsResolved(r, docs) ==
    /\ r.kind = "fetchDocuments"
    /\ docs \in DocumentsOf(r.payload.knowledgeBaseId)
    /\ documents' = docs
    /\ IF r.payload.from = "mounted"
       THEN /\ loadingStates' =
                 SET_MODULE_LOADING(
                    SET_MODULE_LOADING(loadingStates, "documents", FALSE),
                    "aiConfig", TRUE)
            /\ errors' = CLEAR_MODULE_ERROR(errors, "aiConfig")
            /\ inflight' = (inflight \ {r}) \cup
                 {[id |-> r.id, kind |-> "fetchAIConfig",
                   payload |-> [view |-> "review", from |-> "mounted"]]}
       ELSE /\ loadingStates' =
                 SET_MODULE_LOADING(
                    SET_MODULE_LOADING(loadingStates, "documents", FALSE),
                    "review", TRUE)
            /\ errors' = CLEAR_MODULE_ERROR(errors, "review")
            /\ inflight' = (inflight \ {r}) \cup {reviewHistoryRequest(r)}
    /\ UNCHANGED <<reviewNavOthers, currentQuestion, reviewHistory, aiConfig,
                   successMessage, userAnswer, showAnswer,
                   currentAnswerResult, reviewCompleted, routeId,
                   reviewStats, activeView, actionResult>>

\* fetchDocuments failed: the catch of onMounted or of the watcher
reviewFetchDocumentsRejected(r, e) ==
    /\ r.kind = "fetchDocuments"
    /\ Rejected(r, "documents", e, "fetch documents failed")
    /\ UNCHANGED <<reviewNavOthers, documents, currentQuestion,
                   reviewHistory, aiConfig, successMessage, userAnswer,
                   showAnswer, currentAnswerResult, reviewCompleted, routeId,
                   reviewStats, activeView, actionResult>>

\* fetchAIConfig answered: onMounted goes on to loadReviewStats
reviewFetchAIConfigResolved(r, c, shape) ==
    /\ r.kind = "fetchAIConfig"
    /\ aiConfig' = SET_AI_CONFIG(aiConfig, ResponseData(c, shape))
    /\ loadingStates' =
          SET_MODULE_LOADING(
             SET_MODULE_LOADING(loadingStates, "aiConfig", FALSE),
             "review", TRUE)
    /\ errors' = CLEAR_MODULE_ERROR(errors, "review")
    /\ inflight' = (inflight \ {r}) \cup {reviewHistoryRequest(r)}
    /\ UNCHANGED <<reviewNavOthers, documents, currentQuestion,
                   reviewHistory, successMessage, userAnswer, showAnswer,
                   currentAnswerResult, reviewCompleted, routeId,
                   reviewStats, activeView, actionResult>>

reviewFetchAIConfigRejected(r, e) ==
    /\ r.kind = "fetchAIConfig"
    /\ Rejected(r, "aiConfig", e, "fetch AI config failed")
    /\ UNCHANGED <<reviewNavOthers, documents, currentQuestion,
                   reviewHistory, aiConfig, successMessage, userAnswer,
                   showAnswer, currentAnswerResult, reviewCompleted, routeId,
                   reviewStats, activeView, actionResult>>

\* what the watcher does after await loadReviewStats()
watcherClears(r) ==
    IF r.payload.from = "watch"
    THEN /\ currentQuestion' = Null
         /\ reviewCompleted' = FALSE
         /\ showAnswer' = FALSE
         /\ currentAnswerResult' = NullObj
         /\ userAnswer' = ""
    ELSE UNCHANGED <<currentQuestion, reviewCompleted, showAnswer,
                     currentAnswerResult, userAnswer>>

\* fetchReviewHistory answered: SET_REVIEW_HISTORY, loadReviewStats assigns
\* reviewStats when the history is not empty, then the watcher goes on
reviewFetchReviewHistoryResolved(r, history) ==
    /\ r.kind = "fetchReviewHistory"
    /\ history \in ReviewHistoriesOf(r.payload.knowledgeBaseId)
    /\ reviewHistory' = history
    /\ Settled(r, "review")
    /\ actionResult' = [request |-> r, http |-> "answered", threw |-> FALSE]
    /\ reviewStats' = IF Len(history) > 0 THEN reviewStatsOf(history)
                      ELSE reviewStats
    /\ watcherClears(r)
    /\ UNCHANGED <<reviewNavOthers, documents, aiConfig, errors,
                   successMessage, routeId, activeView>>

\* fetchReviewHistory failed: the catch of loadReviewStats, then the watcher
\* goes on
reviewFetchReviewHistoryRejected(r, e) ==
    /\ r.kind = "fetchReviewHistory"
    /\ Rejected(r, "review", e, "fetch review history failed")
    /\ actionResult' = [request |-> r, http |-> "failed", threw |-> TRUE]
    /\ watcherClears(r)
    /\ UNCHANGED <<reviewNavOthers, documents, reviewHistory, aiConfig,
                   successMessage, routeId, reviewStats, activeView>>

\* The quiz view, loaded for a knowledge base with a document and a
\* configured AI service, before a question is generated.
InitReviewNav ==
    /\ routeId \in KnowledgeBaseIds
    /\ confirmBox = "closed"
    /\ db = EmptyDb
    /\ lastCascade = Null
    /\ DeleteViewIdle
    /\ HistoryViewIdle
    /\ actionResult = NullObj
    /\ calls = 0
    /\ cache = EmptyCache
    /\ now = 0
    /\ lastSet = EmptyCache
    /\ getResult = NullObj
    /\ useCache = TRUE
    /\ apiData = Null
    /\ apiError = Null
    /\ apiLoading = FALSE
    /\ apiPending = {}
    /\ execReturn = NullObj
    /\ MoreIdle
    /\ currentKnowledgeBase = Null
    /\ reviewStats = DefaultStats
    /\ activeView = "quiz"
    /\ knowledgeBases = <<"kb1", "kb2">>
    /\ documents = <<[id |-> "d1", knowledge_base_id |-> routeId]>>
    /\ currentQuestion = Null
    /\ currentAnswer = NullObj
    /\ reviewSession = NullObj
    /\ reviewHistory = <<>>
    /\ aiConfig = ConfiguredLocal
    /\ loadingStates = NoLoading
    /\ errors = NoErrors
    /\ successMessage = Null
    /\ userAnswer = ""
    /\ showAnswer = FALSE
    /\ currentAnswerResult = NullObj
    /\ currentQuestionIndex = 0
    /\ reviewCompleted = FALSE
    /\ reviewSummary = EmptyObj
    /\ configForm = ConfiguredLocal
    /\ testResult = NullObj
    /\ formErrors = {}
    /\ uploadingFiles = <<>>
    /\ uploadRequests = {}
    /\ inflight = {}
    /\ runScores = [sum |-> 0, n |-> 0]
    /\ runSaves = 0

NextReviewNav ==
    \/ navGenerateClick
    \/ \E r \in inflight, q \in GeneratedQuestions :
          GenerateQuestionResolved(r, q)
    \/ \E r \in inflight, e \in {ServerError} : GenerateQuestionRejected(r, e)
    \/ openReviewView
    \/ navStartReviewSession
    \/ \E r \in inflight, q \in Questions : GetRandomReviewQuestionResolved(r, q)
    \/ \E r \in inflight, e \in {ServerError} : GetRandomReviewQuestionRejected(r, e)
    \/ \E newId \in KnowledgeBaseIds : reviewRouteChange(newId)
    \/ \E r \in inflight, docs \in QuizDocumentLists :
          reviewFetchDocumentsResolved(r, docs)
    \/ \E r \in inflight, e \in {ServerError} : reviewFetchDocumentsRejected(r, e)
    \/ \E r \in inflight : reviewFetchAIConfigResolved(r, ConfiguredLocal, "full")
    \/ \E r \in inflight, e \in {ServerError} : reviewFetchAIConfigRejected(r, e)
    \/ \E r \in inflight, history \in ReviewHistories :
          reviewFetchReviewHistoryResolved(r, history)
    \/ \E r \in inflight, e \in {ServerError} :
          reviewFetchReviewHistoryRejected(r, e)

SpecReviewNav == InitReviewNav /\ [][NextReviewNav]_vars

-----------------------------------------------------------------------------
(* Properties of the review view, checked under SpecReview *)

\* C1: when a review run completes, the average score shown in the summary
\* and the average_score sent to saveReviewSession equal the arithmetic mean
\* of the scores of the answers evaluated during the run.
C1_AverageIsMean ==
    /\ (reviewCompleted /\ runScores.n > 0) =>
          reviewSummary.averageScore * runScores.n = runScores.sum
    /\ \A r \in inflight :
          (r.kind = "saveReviewSession" /\ runScores.n > 0) =>
             r.payload.average_score * runScores.n = runScores.sum

\* C2: between one startReviewSession and the next at most one
\* saveReviewSession succeeds, and a run that reached Completed has been
\* saved exactly once.
C2_SavedOncePerRun ==
    /\ runSaves <= 1
    /\ reviewCompleted => runSaves = 1

\* C3: the number of the question the card presents, currentQuestionIndex
\* + 1, is at most the session length totalQuestions in every reachable
\* state.
C3_IndexWithinLength ==
    QuestionCardVisible => currentQuestionIndex + 1 <= totalQuestions

\* the session waits for the answer to the question on the card
AwaitingAnswer == QuestionCardVisible /\ ~showAnswer

\* C4: a rejected submitAnswer changes neither currentQuestion nor
\* currentQuestionIndex, shows no evaluation result (showAnswer and
\* currentAnswerResult keep their values, false and null while the answer is
\* awaited), stores no answer, keeps the typed answer, and leaves the submit
\* button usable if it was.
C4_RejectedSubmitKeepsQuestion ==
    [][\A r \in inflight, e \in Failures :
          SubmitAnswerRejected(r, e) =>
             /\ UNCHANGED <<currentQuestion, currentQuestionIndex,
                            showAnswer, currentAnswerResult, userAnswer,
                            currentAnswer>>
             /\ AwaitingAnswer =>
                   /\ AwaitingAnswer'
                   /\ currentAnswerResult' = NullObj
                   /\ SubmitButtonEnabled => SubmitButtonEnabled'
                   /\ AnswerInputEnabled => AnswerInputEnabled']_vars

\* a submitAnswer has been rejected in the middle of a run while the answer
\* typed for the question is still awaited
C4_Witness ==
    /\ errors["aiQuiz"] = "submit answer failed"
    /\ AwaitingAnswer
    /\ currentQuestionIndex > 0
    /\ userAnswer = "a"
    /\ currentAnswerResult = NullObj
    /\ SubmitButtonEnabled

\* the request for the next question of a run in progress has been rejected
GenerationFailedMidRun ==
    /\ errors["review"] = "get review question failed"
    /\ currentQuestionIndex > 0
    /\ currentQuestionIndex < totalQuestions
    /\ ~isLoading

\* a step of the view that requests a question and keeps the progress of the
\* run
RetryGeneration ==
    /\ NextReview
    /\ \E r \in inflight' :
          r \notin inflight /\ r.kind = "getRandomReviewQuestion"
    /\ currentQuestionIndex' = currentQuestionIndex

\* C5: after a rejected request for the next question in the middle of a
\* run, a retry of the generation is available that continues the run
\* without resetting its progress.
C5_RetryKeepsProgress == GenerationFailedMidRun => ENABLED RetryGeneration

\* the requests that advance a review session
AdvancingKinds ==
    {"submitAnswer", "getRandomReviewQuestion", "saveReviewSession"}

\* C6: at most one advancing request (submitAnswer, getRandomReviewQuestion,
\* saveReviewSession) of the session is in flight at any time.
C6_OneAdvancingRequest ==
    Cardinality({r \in inflight : r.kind \in AdvancingKinds}) <= 1

-----------------------------------------------------------------------------
(* Properties of the settings view *)

\* C7 (SpecSettingsNav): after a successful saveAIConfig the store's
\* aiConfig equals the saved configuration in every field, and a failed save
\* leaves aiConfig unchanged.
C7_SaveReplacesInFull ==
    [][/\ \A r \in inflight, sh \in ResponseShapes :
             SaveAIConfigResolved(r, sh) =>
                \A f \in ConfigFields : aiConfig'[f] = r.payload.config[f]
       /\ \A r \in inflight, e \in Failures :
             SaveAIConfigRejected(r, e) => aiConfig' = aiConfig]_vars

\* the required fields of the form's provider are filled in
RequiredFieldsPresent(form) ==
    \/ form.provider = "local" /\ form.api_url # "" /\ form.model_name # ""
    \/ form.provider # "local" /\ form.api_key # "" /\ form.model_name # ""

\* the saveAIConfig requests in flight
SaveRequests(pending) == {r \in pending : r.kind = "saveAIConfig"}

\* C8 (SpecSettings): a saveAIConfig request is issued only for a form whose
\* required fields are present, and it carries the form; a saveConfig on any
\* other form raises validation errors, sends no request and leaves the
\* stored configuration unchanged.
C8_SaveValidatesByProvider ==
    [][/\ SaveRequests(inflight') \ SaveRequests(inflight) # {} =>
             /\ RequiredFieldsPresent(configForm)
             /\ \A r \in SaveRequests(inflight') \ SaveRequests(inflight) :
                   r.payload.config = configForm
       /\ saveConfig =>
             IF RequiredFieldsPresent(configForm)
             THEN SaveRequests(inflight') \ SaveRequests(inflight) # {}
             ELSE /\ formErrors' # {}
                  /\ inflight' = inflight
                  /\ aiConfig' = aiConfig]_vars

\* a save of a local configuration without api_url has been rejected by the
\* validation, and the error names the field
C8_Witness ==
    /\ configForm.provider = "local"
    /\ configForm.api_url = ""
    /\ "api_url" \in formErrors
    /\ SaveRequests(inflight) = {}

\* the testAIConnection requests in flight
TestRequests(pending) == {r \in pending : r.kind = "testAIConnection"}

\* C9 (SpecSettings): a step that issues a testAIConnection request or
\* receives its response, success or failure, leaves every data field of the
\* store unchanged and changes at most the aiConfig loading flag, the
\* aiConfig error and the success message.
C9_TestDoesNotPersist ==
    [][TestRequests(inflight') # TestRequests(inflight) =>
          /\ UNCHANGED <<knowledgeBases, documents, currentQuestion,
                         currentAnswer, reviewSession, reviewHistory,
                         aiConfig>>
          /\ \A m \in Modules \ {"aiConfig"} :
                /\ loadingStates'[m] = loadingStates[m]
                /\ errors'[m] = errors[m]]_vars

\* a connection test has succeeded while the form differs from the stored
\* configuration
C9_Witness ==
    /\ successMessage = "AI connection test succeeded"
    /\ testResult = [success |-> TRUE, message |-> "connection ok"]
    /\ \E f \in ConfigFields : configForm[f] # aiConfig[f]

-----------------------------------------------------------------------------
(* Properties of the upload, checked under SpecUpload *)

HasDot(name) == \E i \in 1..Len(name) : name[i] = "."

\* the extension of a file name: what follows its last dot, nothing for a
\* name without a dot
Extension(name) ==
    IF HasDot(name) THEN pop(split(name)) ELSE <<>>

\* the files the upload is to accept
ValidUpload(name, size) ==
    /\ toLowerCase(Extension(name)) \in allowedExtensions
    /\ size <= 52428800

\* C10: beforeUpload accepts a file, adding it to uploadingFiles and issuing
\* its upload request, if and only if its extension is pdf, epub or txt,
\* compared case-insensitively, and its size is at most 52,428,800 bytes.
C10_AcceptsIffValid ==
    [][\A name \in FileNames, size \in FileSizes :
          beforeUpload(name, size) =>
             IF ValidUpload(name, size)
             THEN /\ Len(uploadingFiles') = Len(uploadingFiles) + 1
                  /\ uploadRequests' # uploadRequests
             ELSE UNCHANGED <<uploadingFiles, uploadRequests>>]_vars

-----------------------------------------------------------------------------
(* Properties of the quiz view, checked under SpecQuiz *)

\* the generateQuestion requests a step issues
NewGenerateRequests ==
    {r \in inflight' : r \notin inflight /\ r.kind = "generateQuestion"}

\* C11: generateQuestion is dispatched for a knowledge base K only while the
\* store holds a document with knowledge_base_id = K.
C11_NoGenerationWithoutDocuments ==
    [][\A r \in NewGenerateRequests :
          getDocumentsByKnowledgeBase(r.payload.knowledgeBaseId) # {}]_vars

-----------------------------------------------------------------------------
(* Properties of the database schema, checked under SpecDb *)

\* every dependent row references an existing parent row
NoOrphans ==
    /\ \A t \in OwnedTables : \A row \in db[t] :
          row.knowledge_base_id \in db.knowledge_bases
    /\ \A a \in db.answers : HasId(db.questions, a.question_id)

\* no row of database d refers to knowledge base kb or to one of qs, the
\* questions kb had
NothingRefersTo(d, kb, qs) ==
    /\ \A t \in OwnedTables : \A row \in d[t] : row.knowledge_base_id # kb
    /\ \A a \in d.answers : \A q \in qs : q.id # a.question_id

\* C12: each dependent row references an existing parent row in every
\* reachable state, and after a knowledge_bases row is deleted no documents,
\* questions or review_sessions row has its id and no answers row references
\* one of its questions.
C12_CascadeDeletion ==
    /\ []NoOrphans
    /\ [][\A kb \in KnowledgeBaseIds :
             (kb \in db.knowledge_bases /\ kb \notin db'.knowledge_bases)
                => NothingRefersTo(db', kb, OwnedBy("questions", kb))]_vars

\* a knowledge base with documents, answered questions and review sessions
\* has been deleted while rows of another knowledge base remain
C12_Witness ==
    /\ lastCascade \in KnowledgeBaseIds
    /\ lastCascade \notin db.knowledge_bases
    /\ db.documents # {}
    /\ db.answers # {}

-----------------------------------------------------------------------------
(* Properties of the history view, checked under SpecHistory *)

\* the sum of a field over the loaded history, from index i on
RECURSIVE TotalFrom(_, _)
TotalFrom(i, field) ==
    IF i > Len(reviewHistory) THEN 0
    ELSE reviewHistory[i][field] + TotalFrom(i + 1, field)

\* m is total / n rounded to the nearest integer, halves up
IsRoundedMean(m, total, n) ==
    /\ 2 * n * m - n <= 2 * total
    /\ 2 * total < 2 * n * m + n

\* C13: in every state, whatever the filters and the page are, historyStats
\* is null for an empty history and otherwise the count, the rounded mean
\* score, the highest score and the total duration of the whole loaded
\* history.
C13_StatsScanWholeHistory ==
    IF reviewHistory = <<>> THEN historyStats = NullObj
    ELSE /\ historyStats.totalSessions = Len(reviewHistory)
         /\ IsRoundedMean(historyStats.averageScore,
                          TotalFrom(1, "average_score"), Len(reviewHistory))
         /\ \E i \in DOMAIN reviewHistory :
               historyStats.highestScore = reviewHistory[i].average_score
         /\ \A i \in DOMAIN reviewHistory :
               historyStats.highestScore >= reviewHistory[i].average_score
         /\ historyStats.totalDuration = TotalFrom(1, "duration")

\* two sessions with mean 79.5 are loaded while both filters hide one of them
C13_Witness ==
    /\ Len(reviewHistory) = 2
    /\ scoreFilter = "poor"
    /\ dateRange = <<1, 1>>
    /\ Len(filteredHistory) = 1
    /\ historyStats.averageScore = 80
    /\ historyStats.totalDuration = 30

\* the session's creation date as the view shows it lies in the chosen range
InDateRange(session) ==
    \/ dateRange = NullRange
    \/ Len(dateRange) # 2
    \/ /\ dateRange[1] <= formatDate(session.created_at)
       /\ formatDate(session.created_at) <= dateRange[2]

\* the score lies in the chosen band
InScoreBand(session) ==
    \/ scoreFilter = ""
    \/ scoreFilter = "excellent" /\ session.average_score >= 90
    \/ scoreFilter = "good" /\ session.average_score >= 70
                            /\ session.average_score < 90
    \/ scoreFilter = "poor" /\ session.average_score < 70

Occurrences(seq, x) == Cardinality({i \in DOMAIN seq : seq[i] = x})

\* C14: in every filter state filteredHistory holds each loaded session whose
\* creation date lies in the chosen date range and whose score lies in the
\* chosen band exactly once, holds nothing else, and is sorted by
\* non-increasing creation time.
C14_FilteredNewestFirst ==
    /\ \A i \in DOMAIN reviewHistory :
          Occurrences(filteredHistory, reviewHistory[i]) =
             IF InDateRange(reviewHistory[i]) /\ InScoreBand(reviewHistory[i])
             THEN 1 ELSE 0
    /\ \A i \in DOMAIN filteredHistory :
          Occurrences(reviewHistory, filteredHistory[i]) = 1
    /\ \A i, j \in DOMAIN filteredHistory :
          i < j => filteredHistory[i].created_at >= filteredHistory[j].created_at

ScoreBands == {"excellent", "good", "poor"}

\* the band of a score as the filter options name it
BandOf(score) ==
    IF score >= 90 THEN "excellent"
    ELSE IF score >= 70 THEN "good"
    ELSE "poor"

\* the tag type that belongs to a band
TagOfBand(band) ==
    CASE band = "excellent" -> "success"
      [] band = "good" -> "warning"
      [] band = "poor" -> "danger"

\* the loaded sessions that the date filter alone keeps
KeptByDate == {reviewHistory[i] : i \in {j \in DOMAIN reviewHistory :
                                           dateFilterKeeps(reviewHistory[j])}}

\* C15: every score in 0..100 is kept by exactly one band of the filter, the
\* band whose tag type getScoreTagType computes for it; and while a band is
\* selected the list holds exactly the sessions of that band among those the
\* date filter keeps.
C15_BandsPartitionScores ==
    /\ \A score \in 0..100 :
          /\ Cardinality({b \in ScoreBands : scoreFilterKeeps(b, score)}) = 1
          /\ scoreFilterKeeps(BandOf(score), score)
          /\ getScoreTagType(score) = TagOfBand(BandOf(score))
    /\ scoreFilter \in ScoreBands =>
          {filteredHistory[i] : i \in DOMAIN filteredHistory} =
             {s \in KeptByDate : BandOf(s.average_score) = scoreFilter}

\* the band "excellent" is selected and keeps the session with score 90 but
\* not the one with score 89
C15_Witness ==
    /\ scoreFilter = "excellent"
    /\ \E i \in DOMAIN filteredHistory : filteredHistory[i].average_score = 90
    /\ \E i \in DOMAIN reviewHistory : reviewHistory[i].average_score = 89
    /\ \A i \in DOMAIN filteredHistory : filteredHistory[i].average_score >= 90

-----------------------------------------------------------------------------
(* Properties of the delete confirmation, checked under SpecDelete *)

DeleteRequests(requests) ==
    {r \in requests : r.kind \in {"deleteKnowledgeBase", "deleteDocument"}}

\* a dialog left the screen in this step with the given outcome
DialogSettledWith(d, actions) ==
    /\ d \in dialogs
    /\ dialogs' = dialogs \ {d}
    /\ dialogResult'.item = d.item
    /\ dialogResult'.action \in actions

\* C16: a delete request is sent only in the step in which the dialog of the
\* same item resolves with "confirm"; when a dialog is cancelled, closed or
\* fails, showConfirmDialog returns false, no request is sent and the store
\* is left as it was.
C16_DeleteOnlyAfterConfirm ==
    [][/\ \A r \in DeleteRequests(inflight') \ inflight :
             \E d \in dialogs :
                /\ DialogSettledWith(d, {"confirm"})
                /\ dialogResult'.returned
                /\ r.payload.item = d.item
       /\ \A d \in dialogs :
             DialogSettledWith(d, DialogRejections) =>
                /\ ~dialogResult'.returned
                /\ UNCHANGED <<storeData, storeUi, inflight>>]_vars

\* a confirmed dialog has sent the delete request of its item
C16_Witness ==
    /\ dialogResult # NullObj
    /\ dialogResult.action = "confirm"
    /\ \E r \in DeleteRequests(inflight) : r.payload.item = dialogResult.item

-----------------------------------------------------------------------------
(* Properties of the loading flags, checked under SpecQuiz *)

\* C17: while a store action is awaiting its HTTP response, the loading
\* flag of its module is true.
C17_LoadingWhileAwaiting ==
    \A r \in inflight : loadingStates[ModuleOf(r.kind)]

-----------------------------------------------------------------------------
(* Properties of the store actions, checked under SpecStore *)

\* the HTTP request of r fails in this step
RequestFails(r) ==
    /\ r \notin inflight'
    /\ actionResult'.request = r
    /\ actionResult'.http = "failed"

\* C18: when the HTTP request of a store action fails, the action throws the
\* error on to its caller, the error of its module is afterwards the server's
\* text or the action's default message, and no data field has changed.
C18_FailureIsReported ==
    [][\A r \in inflight :
          RequestFails(r) =>
             /\ actionResult'.threw
             /\ errors'[ModuleOf(r.kind)] # Null
             /\ errors'[ModuleOf(r.kind)] \in
                   {ServerError, DefaultMessage(r.kind)}
             /\ UNCHANGED storeData]_vars

\* deleteKnowledgeBase has failed without a server text while a knowledge
\* base was loaded
C18_Witness ==
    /\ actionResult # NullObj
    /\ actionResult.request.kind = "deleteKnowledgeBase"
    /\ actionResult.threw
    /\ errors["knowledgeBases"] = DefaultMessage("deleteKnowledgeBase")
    /\ knowledgeBases = <<"kb1">>

-----------------------------------------------------------------------------
(* Properties of APICache, checked under SpecCache *)

\* the data set last for the key, while the current time is not after the
\* expiry of that set; null otherwise
FreshData(key) ==
    IF lastSet[key] # NullObj /\ now <= lastSet[key].expiresAt
    THEN lastSet[key].data
    ELSE Null

\* C19: every get(key) returns the data set last for the key if the current
\* time is not after its expiresAt and null otherwise, and an entry found
\* expired is removed by the get.
C19_NeverServesExpired ==
    [][calls' = calls + 1 =>
          LET key == getResult'.key
          IN /\ getResult'.value = FreshData(key)
             /\ (cache[key] # NullObj /\ now > cache[key].expiresAt) =>
                   cache'[key] = NullObj
             /\ (cache[key] # NullObj /\ now <= cache[key].expiresAt) =>
                   cache'[key] = cache[key]]_vars

\* a get found the entry of its key expired and removed it
C19_Witness ==
    /\ getResult # NullObj
    /\ getResult.value = Null
    /\ lastSet[getResult.key] # NullObj
    /\ now > lastSet[getResult.key].expiresAt
    /\ cache[getResult.key] = NullObj

-----------------------------------------------------------------------------
(* Properties of useOptimizedAPI, checked under SpecApi *)

\* an entry of cacheKey exists and has not expired
UnexpiredEntry == cache[cacheKey] # NullObj /\ now <= cache[cacheKey].expiresAt

\* C20: with useCache, an execute that finds an unexpired entry of cacheKey
\* returns the entry's data and does not invoke apiFunction, whatever value
\* was cached; a refresh always invokes apiFunction.
C20_CacheFirst ==
    [][calls' = calls + 1 =>
          /\ (execReturn'.via = "execute" /\ useCache /\ UnexpiredEntry) =>
                /\ apiPending' = apiPending
                /\ execReturn'.hit
                /\ execReturn'.value = cache[cacheKey].data
          /\ execReturn'.via = "refresh" => (calls + 1) \in apiPending']_vars

-----------------------------------------------------------------------------
(* Properties of APIBatcher, checked under SpecBatcher *)

\* nothing is queued, no timer is pending and no batch is awaited
BatcherQuiescent ==
    /\ batcherQueue = <<>>
    /\ batcherTimers = {}
    /\ batcherBatches = {}

\* C21: no request function is invoked twice, a settled promise carries the
\* result or the rejection of its own request, no batch holds more than
\* batchSize requests, and once nothing is queued, timed or awaited every
\* added request has been invoked once and its promise is settled.
C21_NoRequestLost ==
    /\ \A id \in DOMAIN batcherRequests :
          LET request == batcherRequests[id]
          IN /\ request.invoked <= 1
             /\ request.status = "fulfilled" =>
                   request.behaviour = "fulfils" /\ request.of = id
             /\ request.status = "rejected" =>
                   request.behaviour # "fulfils" /\ request.of = id
             /\ BatcherQuiescent =>
                   request.invoked = 1 /\ request.status # "pending"
    /\ \A batch \in batcherBatches : Len(batch) <= batchSize

-----------------------------------------------------------------------------
(* Properties of debounce and throttle, checked under SpecDebounce and
   SpecThrottle *)

\* the calls that end a burst: no further call follows within the delay
BurstEnds ==
    {i \in DOMAIN debounceCalls :
        \/ i = Len(debounceCalls)
        \/ debounceCalls[i + 1].at >= debounceCalls[i].at + debounceDelay}

\* the j-th smallest element of a set of numbers
NthOf(S, j) == CHOOSE i \in S : Cardinality({k \in S : k <= i}) = j

C23_ThrottleOncePerWindow ==
    /\ Len(throttleCalls) >= 1 =>
          /\ Len(throttleInvoked) >= 1
          /\ throttleInvoked[1].call = 1
    /\ \A j \in DOMAIN throttleInvoked :
          throttleInvoked[j].at = throttleCalls[throttleInvoked[j].call].at
    /\ \A j, k \in DOMAIN throttleInvoked :
          j < k => throttleInvoked[k].at >= throttleInvoked[j].at + throttleLimit

-----------------------------------------------------------------------------
(* Properties of the documents view under route changes, checked under
   SpecDocumentsNav *)

\* C24: once every request has settled, each document in state.documents
\* belongs to the knowledge base of the current route.
C24_DocumentsOfCurrentRoute ==
    inflight = {} =>
       \A i \in DOMAIN documents : documents[i].knowledge_base_id = routeId

-----------------------------------------------------------------------------
(* Properties of the layout, checked under SpecLayout *)

\* C25: once every request has settled, currentKnowledgeBase is the
\* knowledge base of the route's id when the route has an id and the store
\* holds that knowledge base, and null otherwise.
C25_CurrentFollowsRoute ==
    inflight = {} =>
       currentKnowledgeBase =
          IF routeId # Null
          THEN getKnowledgeBaseById(knowledgeBases, routeId)
          ELSE Null

-----------------------------------------------------------------------------
(* Properties of the review view opened from the quiz view, checked under
   SpecReviewNav *)

\* C26: whenever the review view shows its question card, the question in
\* it is one that getRandomReviewQuestion returned, not one that the quiz
\* view's generateQuestion left in the store.
C26_CardShowsReviewQuestion ==
    (activeView = "review" /\ QuestionCardVisible) =>
       currentQuestion \in Questions

\* C27: after loadReviewStats has completed, reviewStats holds the values
\* derived from the history it fetched when that history is not empty, and
\* the defaults when the history is empty or the request failed.
C27_StatsOfFetchedHistory ==
    (actionResult # NullObj /\ actionResult.request.kind = "fetchReviewHistory")
       => reviewStats =
             IF actionResult.http = "answered" /\ Len(reviewHistory) > 0
             THEN reviewStatsOf(reviewHistory)
             ELSE DefaultStats

====
